---------------------------- MODULE Spec2Model ----------------------------
(***************************************************************************)
(* Invoice validation and de-duplication engine of Invoice_Validation.     *)
(*                                                                         *)
(* Five specifications share this module:                                  *)
(*   Spec      - the pipelines working on the shared MongoDB store: the    *)
(*               Streamlit file loop of data_base/app.py, the directory    *)
(*               loop of src/main.py, insert_doc and insert_one_json of    *)
(*               data_base/load_jsons.py, process_invoice of               *)
(*               data_base/embedding_utils.py and process_file of          *)
(*               database/duplicate_detector.py, one call after another;   *)
(*   SpecRace  - insert_doc and insert_one_json run by two workers whose   *)
(*               store operations interleave;                              *)
(*   SpecSeq   - insert_doc called again and again by one caller, on       *)
(*               records some of which lack an identifying field;          *)
(*   SpecArith - validate_invoice of src/arthimeticCheck.py applied to     *)
(*               records drawn from bounded sets;                          *)
(*   SpecFn    - is_exact_duplicate, the embedding text, cosine_similarity *)
(*               and find_similar_embeddings applied to arguments drawn    *)
(*               from bounded sets.                                        *)
(*                                                                         *)
(* Numbers.  Python floats are modelled by integers.  Money fields (rate,  *)
(* amount, subtotal, tax_amount, total_amount, round_off, invoice_amount)  *)
(* count units of 10^-5, so one cent is 1000 and 1.0 is 100000; quantity   *)
(* and cgst/sgst/igst/gst count whole units.  Where binary floating point  *)
(* decides an outcome the decimal value leaves open (a round() tie, a      *)
(* difference exactly on a tolerance) the outcome is an input: tieUp and   *)
(* fpEdge.                                                                 *)
(*                                                                         *)
(* Values read from JSON are tagged tuples: <<"none">> (null/absent),      *)
(* <<"empty">> (""), <<"num", n>>, <<"str", n>> (a numeric string,         *)
(* possibly comma-grouped, that parses to n), <<"bad">> (a string float()  *)
(* rejects).                                                               *)
(***************************************************************************)
EXTENDS Integers, Sequences, FiniteSets, TLC

VARIABLES
    \* ---- SpecArith: the validator applied to one record
    inv,        \* the record handed to validate_invoice
    tieUp,      \* round(): an exact tie goes up (TRUE) or down (FALSE)
    fpEdge,     \* abs(a-b) > tol with a-b exactly tol: float error says True
    res,        \* <<>> before the call, <<result>> after it
    \* ---- Spec: the store and the workers
    invoices,   \* invoices collection: sequence of [id, doc]
    embeddings, \* embeddings collection: sequence of [invoice_id, embedding, file_name]
    nextId,     \* next ObjectId the store hands out
    calls,      \* records taken up so far (bounds the run)
    faults,     \* whether the store of this run can fail
    w,          \* per worker: its position and locals
    \* ---- SpecFn: one function applied to its arguments
    args        \* the function applied and its arguments besides inv

vars == <<inv, tieUp, fpEdge, res, invoices, embeddings, nextId, calls, faults, w, args>>

-----------------------------------------------------------------------------
(* Generic helpers *)

Abs(x) == IF x < 0 THEN -x ELSE x

RECURSIVE SumSeq(_)
SumSeq(s) == IF s = <<>> THEN 0 ELSE Head(s) + SumSeq(Tail(s))

NONE == <<"none">>
Num(n) == <<"num", n>>
Str(n) == <<"str", n>>

-----------------------------------------------------------------------------
(* src/src/arthimeticCheck.py *)

\* round(x, 2) and the ":.2f" format work to the cent
Cent == 1000
\* line and subtotal and tax tolerance 0.01
TolLine == 1000
\* grand total tolerance 1
TolTotal == 100000
\* "usually >50 means not percentage"
PctLimit == 50
\* one whole unit (cgst/sgst/igst taken as amounts are whole units)
One == 100 * Cent

\* clean_number: None, "" and "None" give 0.0; float(str(value).replace(",", ""))
\* otherwise, 0.0 when float() raises ValueError
clean_number(value) ==
    CASE value[1] = "none"  -> 0
      [] value[1] = "empty" -> 0
      [] value[1] = "bad"   -> 0
      [] OTHER              -> value[2]

\* a truth test that takes every number, 0.0 included, as present
Truthy_always(x) == TRUE

\* Python's "if x:" on a cleaned number
Truthy(x) == x # 0

\* round(x, 2): to the nearest cent; on an exact decimal tie the binary float
\* lies on one side or the other
round2(x, tie) ==
    LET r == x % Cent
        lo == x - r
    IN  IF r * 2 < Cent THEN lo
        ELSE IF r * 2 > Cent THEN lo + Cent
        ELSE IF tie THEN lo + Cent ELSE lo

\* the comparison abs(d) >= tol: a difference on the tolerance is flagged
Exceeds_inclusive(d, tol, edge) == Abs(d) >= tol

\* abs(d) > tol evaluated in floating point
Exceeds(d, tol, edge) == Abs(d) > tol \/ (Abs(d) = tol /\ edge)

\* dict.get(key) on a summary dict: absent keys read as None
\* (the summary dict is modelled with every key, absent ones holding NONE)

\* ItemLoop with the line amount compared against the unrounded product
RECURSIVE ItemLoop_unrounded(_, _, _, _, _)
ItemLoop_unrounded(items, i, acc, tie, edge) ==
    IF i > Len(items) THEN acc
    ELSE
      LET item   == items[i]
          qty0   == clean_number(item.quantity)
          rate0  == clean_number(item.rate)
          amount == clean_number(item.amount)
          sum1   == acc.subtotal_sum + amount
          rescue == qty0 = 0 /\ rate0 = 0 /\ amount # 0
          qty    == IF rescue THEN 1 ELSE qty0
          rate   == IF rescue THEN amount ELSE rate0
      IN  IF qty = 0 \/ rate = 0 \/ amount = 0
          THEN ItemLoop_unrounded(items, i + 1,
                   [acc EXCEPT !.subtotal_sum = sum1,
                               !.errors = Append(@, [kind |-> "missing", item |-> i]),
                               !.status_data_extract = FALSE],
                   tie, edge)
          ELSE
            LET expected_amount == round2(qty * rate, tie)
                calc1 == acc.calc_subtotal + expected_amount
            IN  ItemLoop_unrounded(items, i + 1,
                   [acc EXCEPT !.subtotal_sum = sum1,
                               !.calc_subtotal = calc1,
                               !.errors =
                                   IF Exceeds(qty * rate - amount, TolLine, edge)
                                   THEN Append(@, [kind |-> "item", item |-> i,
                                                   expected |-> expected_amount,
                                                   found |-> round2(amount, tie)])
                                   ELSE @],
                   tie, edge)

\* ItemLoop in which a line mismatch also clears the no-missing-data flag
RECURSIVE ItemLoop_flagging(_, _, _, _, _)
ItemLoop_flagging(items, i, acc, tie, edge) ==
    IF i > Len(items) THEN acc
    ELSE
      LET item   == items[i]
          qty0   == clean_number(item.quantity)
          rate0  == clean_number(item.rate)
          amount == clean_number(item.amount)
          sum1   == acc.subtotal_sum + amount
          rescue == qty0 = 0 /\ rate0 = 0 /\ amount # 0
          qty    == IF rescue THEN 1 ELSE qty0
          rate   == IF rescue THEN amount ELSE rate0
      IN  IF qty = 0 \/ rate = 0 \/ amount = 0
          THEN ItemLoop_flagging(items, i + 1,
                   [acc EXCEPT !.subtotal_sum = sum1,
                               !.errors = Append(@, [kind |-> "missing", item |-> i]),
                               !.status_data_extract = FALSE],
                   tie, edge)
          ELSE
            LET expected_amount == round2(qty * rate, tie)
                calc1 == acc.calc_subtotal + expected_amount
                off   == Exceeds(expected_amount - amount, TolLine, edge)
            IN  ItemLoop_flagging(items, i + 1,
                   [acc EXCEPT !.subtotal_sum = sum1,
                               !.calc_subtotal = calc1,
                               !.status_data_extract = IF off THEN FALSE ELSE @,
                               !.errors =
                                   IF off
                                   THEN Append(@, [kind |-> "item", item |-> i,
                                                   expected |-> expected_amount,
                                                   found |-> round2(amount, tie)])
                                   ELSE @],
                   tie, edge)

\* ItemLoop without the rescue of a line that has only an amount
RECURSIVE ItemLoop_unrescued(_, _, _, _, _)
ItemLoop_unrescued(items, i, acc, tie, edge) ==
    IF i > Len(items) THEN acc
    ELSE
      LET item   == items[i]
          qty    == clean_number(item.quantity)
          rate   == clean_number(item.rate)
          amount == clean_number(item.amount)
          sum1   == acc.subtotal_sum + amount
      IN  IF qty = 0 \/ rate = 0 \/ amount = 0
          THEN ItemLoop_unrescued(items, i + 1,
                   [acc EXCEPT !.subtotal_sum = sum1,
                               !.errors = Append(@, [kind |-> "missing", item |-> i]),
                               !.status_data_extract = FALSE],
                   tie, edge)
          ELSE
            LET expected_amount == round2(qty * rate, tie)
                calc1 == acc.calc_subtotal + expected_amount
            IN  ItemLoop_unrescued(items, i + 1,
                   [acc EXCEPT !.subtotal_sum = sum1,
                               !.calc_subtotal = calc1,
                               !.errors =
                                   IF Exceeds(expected_amount - amount, TolLine, edge)
                                   THEN Append(@, [kind |-> "item", item |-> i,
                                                   expected |-> expected_amount,
                                                   found |-> round2(amount, tie)])
                                   ELSE @],
                   tie, edge)

\* One pass of the "for item in items" loop (lines 49-73) over items[i..]
RECURSIVE ItemLoop(_, _, _, _, _)
ItemLoop(items, i, acc, tie, edge) ==
    IF i > Len(items) THEN acc
    ELSE
      LET item   == items[i]
          qty0   == clean_number(item.quantity)
          rate0  == clean_number(item.rate)
          amount == clean_number(item.amount)
          sum1   == acc.subtotal_sum + amount
          rescue == qty0 = 0 /\ rate0 = 0 /\ amount # 0
          qty    == IF rescue THEN 1 ELSE qty0
          rate   == IF rescue THEN amount ELSE rate0
      IN  IF qty = 0 \/ rate = 0 \/ amount = 0
          THEN ItemLoop(items, i + 1,
                   [acc EXCEPT !.subtotal_sum = sum1,
                               !.errors = Append(@, [kind |-> "missing", item |-> i]),
                               !.status_data_extract = FALSE],
                   tie, edge)
          ELSE
            LET expected_amount == round2(qty * rate, tie)
                calc1 == acc.calc_subtotal + expected_amount
            IN  ItemLoop(items, i + 1,
                   [acc EXCEPT !.subtotal_sum = sum1,
                               !.calc_subtotal = calc1,
                               !.errors =
                                   IF Exceeds(expected_amount - amount, TolLine, edge)
                                   THEN Append(@, [kind |-> "item", item |-> i,
                                                   expected |-> expected_amount,
                                                   found |-> round2(amount, tie)])
                                   ELSE @],
                   tie, edge)

\* TaxBlock with the percentage limit taken inclusively (>= 50 read as an amount)
TaxBlock_inclusive(summary, summary_subtotal, edge) ==
    LET cgst == clean_number(summary.cgst)
        sgst == clean_number(summary.sgst)
        igst == clean_number(summary.igst)
        declared == clean_number(summary.tax_amount)
    IN  IF cgst >= PctLimit \/ sgst >= PctLimit \/ igst >= PctLimit
        THEN LET total_tax_calc == (cgst + sgst + igst) * One
             IN  [tax_amount |-> total_tax_calc,
                  mismatch |-> Exceeds(total_tax_calc - declared, TolLine, edge),
                  declared |-> declared]
        ELSE [tax_amount |-> (summary_subtotal * cgst) \div 100
                             + (summary_subtotal * sgst) \div 100
                             + (summary_subtotal * igst) \div 100,
              mismatch |-> FALSE,
              declared |-> declared]

\* TaxBlock with the declared tax_amount compared in the percentage case too
TaxBlock_checked(summary, summary_subtotal, edge) ==
    LET cgst == clean_number(summary.cgst)
        sgst == clean_number(summary.sgst)
        igst == clean_number(summary.igst)
        declared == clean_number(summary.tax_amount)
        pct_tax == (summary_subtotal * cgst) \div 100
                   + (summary_subtotal * sgst) \div 100
                   + (summary_subtotal * igst) \div 100
    IN  IF cgst > PctLimit \/ sgst > PctLimit \/ igst > PctLimit
        THEN LET total_tax_calc == (cgst + sgst + igst) * One
             IN  [tax_amount |-> total_tax_calc,
                  mismatch |-> Exceeds(total_tax_calc - declared, TolLine, edge),
                  declared |-> declared]
        ELSE [tax_amount |-> pct_tax,
              mismatch |-> Exceeds(pct_tax - declared, TolLine, edge),
              declared |-> declared]

\* The tax block (lines 87-107): the working tax amount and whether a
\* "Tax total mismatch" is emitted
TaxBlock(summary, summary_subtotal, edge) ==
    LET cgst == clean_number(summary.cgst)
        sgst == clean_number(summary.sgst)
        igst == clean_number(summary.igst)
        declared == clean_number(summary.tax_amount)
    IN  IF cgst > PctLimit \/ sgst > PctLimit \/ igst > PctLimit
        THEN LET total_tax_calc == (cgst + sgst + igst) * One
             IN  [tax_amount |-> total_tax_calc,
                  mismatch |-> Exceeds(total_tax_calc - declared, TolLine, edge),
                  declared |-> declared]
        ELSE [tax_amount |-> (summary_subtotal * cgst) \div 100
                             + (summary_subtotal * sgst) \div 100
                             + (summary_subtotal * igst) \div 100,
              mismatch |-> FALSE,
              declared |-> declared]

\* A summary dict with every key absent: what .get(...) reads from {}
EmptySummary ==
    [subtotal |-> NONE, tax_amount |-> NONE, total_amount |-> NONE, gst |-> NONE,
     cgst |-> NONE, sgst |-> NONE, igst |-> NONE, round_off |-> NONE]

\* validate_invoice (lines 13-132).  The result is [raised |-> TRUE] when
\* the call raises (summary or items null: .get / iteration on None), else
\* the result dict.
validate_invoice(invoice_dict, tie, edge) ==
    IF invoice_dict.summary[1] = "null" \/ invoice_dict.items[1] = "null"
    THEN [raised |-> TRUE]
    ELSE
      LET summary == IF invoice_dict.summary[1] = "absent" THEN EmptySummary
                     ELSE invoice_dict.summary[2]
          items   == IF invoice_dict.items[1] = "absent" THEN <<>>
                     ELSE invoice_dict.items[2]
          loop    == ItemLoop(items, 1,
                        [subtotal_sum |-> 0, calc_subtotal |-> 0, errors |-> <<>>,
                         status_data_extract |-> TRUE], tie, edge)
          calc_subtotal == IF loop.calc_subtotal = 0 THEN loop.subtotal_sum
                           ELSE loop.calc_subtotal
          declared_subtotal == clean_number(summary.subtotal)
          sub_bad == Truthy(declared_subtotal)
                     /\ Exceeds(declared_subtotal - calc_subtotal, TolLine, edge)
          summary_subtotal == IF sub_bad THEN declared_subtotal ELSE calc_subtotal
          errors1 == IF sub_bad
                     THEN Append(loop.errors,
                              [kind |-> "subtotal",
                               expected |-> round2(calc_subtotal, tie),
                               found |-> round2(declared_subtotal, tie)])
                     ELSE loop.errors
          tax     == TaxBlock(summary, summary_subtotal, edge)
          errors2 == IF tax.mismatch
                     THEN Append(errors1,
                              [kind |-> "tax",
                               expected |-> round2(tax.tax_amount, tie),
                               found |-> round2(tax.declared, tie)])
                     ELSE errors1
          total_amount == clean_number(summary.total_amount)
          round_off == clean_number(summary.round_off)
          expected_total == round2(summary_subtotal + tax.tax_amount + round_off, tie)
          grand_bad == Truthy(total_amount)
                       /\ Exceeds(expected_total - total_amount, TolTotal, edge)
          errors3 == IF grand_bad
                     THEN Append(errors2,
                              [kind |-> "grand",
                               expected |-> expected_total,
                               found |-> round2(total_amount, tie)])
                     ELSE errors2
      IN  [raised |-> FALSE,
           status |-> (errors3 = <<>>),
           errors |-> errors3,
           calculated |-> [subtotal |-> round2(summary_subtotal, tie),
                           tax_amount |-> round2(tax.tax_amount, tie),
                           grand_total |-> round2(expected_total, tie)],
           status_grand_total |-> ~grand_bad,
           status_subtotal |-> ~sub_bad,
           status_tax_total |-> ~tax.mismatch,
           status_data_missing |-> loop.status_data_extract]

-----------------------------------------------------------------------------
(* Invoice records handled by the pipelines *)

Text(t) == <<"text", t>>

\* one line item; hsn_sac is absent in every record of the pool but DocHsn's
MkItem(desc, hsn, qty, rate, amount) ==
    [description |-> desc, hsn_sac |-> hsn,
     quantity |-> qty, rate |-> rate, amount |-> amount]

MkSummary(subtotal, cgst, sgst, igst, tax, total) ==
    [subtotal |-> subtotal, tax_amount |-> tax, total_amount |-> total, gst |-> NONE,
     cgst |-> cgst, sgst |-> sgst, igst |-> igst, round_off |-> NONE]

\* an extracted record in the shape the extraction prompt prescribes
\* (data_base/invoice_extracter.py lines 29-60); alt_keys says whether the
\* record also carries the keys "invoice_number" and "invoiced_date"
MkDoc(no, gstin, date, name, items, summary, alt) ==
    [invoice_no |-> no, gstin_company |-> gstin, invoice_date |-> date,
     invoice_amount |-> NONE, company_name |-> name,
     items |-> items, summary |-> summary, alt_keys |-> alt]

GSTIN1 == Text("27ABCDE1234F1Z5")

\* 10 x 10.00 = 100.00, 9 % + 9 %, total 118.00: consistent
DocA ==
    MkDoc(Text("INV-1"), GSTIN1, Text("01-Jan-25"), Text("Acme"),
          <<"list", << MkItem(Text("widget"), NONE, Num(10), Num(1000000), Num(10000000)) >> >>,
          <<"dict", MkSummary(Num(10000000), Num(9), Num(9), Num(0), Num(1800000), Num(11800000))>>,
          FALSE)

\* the invoice number, GSTIN, date and total of DocA with another line text
DocB ==
    MkDoc(Text("INV-1"), GSTIN1, Text("01-Jan-25"), Text("Acme"),
          <<"list", << MkItem(Text("gadget"), NONE, Num(10), Num(1000000), Num(10000000)) >> >>,
          <<"dict", MkSummary(Num(10000000), Num(9), Num(9), Num(0), Num(1800000), Num(11800000))>>,
          FALSE)

\* the vendor, line text and tax rates of DocA with another number, date,
\* quantity and amounts: 5 x 10.00 = 50.00, total 59.00
DocC ==
    MkDoc(Text("INV-2"), GSTIN1, Text("02-Feb-25"), Text("Acme"),
          <<"list", << MkItem(Text("widget"), NONE, Num(5), Num(1000000), Num(5000000)) >> >>,
          <<"dict", MkSummary(Num(5000000), Num(9), Num(9), Num(0), Num(900000), Num(5900000))>>,
          TRUE)

\* a declared total 10.00 short of subtotal + tax: arithmetically invalid
DocD ==
    MkDoc(Text("INV-3"), GSTIN1, Text("03-Mar-25"), Text("Acme"),
          <<"list", << MkItem(Text("sprocket"), NONE, Num(10), Num(1000000), Num(10000000)) >> >>,
          <<"dict", MkSummary(Num(10000000), Num(9), Num(9), Num(0), Num(1800000), Num(10800000))>>,
          FALSE)

\* "items": null, as the extractor may answer
DocE ==
    MkDoc(Text("INV-4"), GSTIN1, Text("04-Apr-25"), Text("Acme"),
          <<"null">>,
          <<"dict", MkSummary(Num(10000000), Num(9), Num(9), Num(0), Num(1800000), Num(11800000))>>,
          FALSE)

\* a consistent record whose tax_amount came as the string "18.00"
DocG ==
    MkDoc(Text("INV-5"), GSTIN1, Text("05-May-25"), Text("Acme"),
          <<"list", << MkItem(Text("widget"), NONE, Num(10), Num(1000000), Num(10000000)) >> >>,
          <<"dict", MkSummary(Num(10000000), Num(9), Num(9), Num(0), Str(1800000), Num(11800000))>>,
          FALSE)

DocPool == { DocA, DocB, DocC, DocD, DocE, DocG }

\* the records handed to the entry points directly
DirectDocs == { DocA, DocB, DocC, DocD }

\* len(s) of the strings that occur
StrLen(t) == IF t = "27ABCDE1234F1Z5" THEN 15 ELSE 5

\* Python truthiness of an optional string
TextTruthy(v) == v[1] = "text" /\ v[2] # ""

-----------------------------------------------------------------------------
(* src/data_base/duplicate_utils.py, src/database/duplicate_detector.py *)

\* the total the query asks for: summary.total_amount, else invoice_amount
QueryTotal(doc) ==
    LET t == IF doc.summary[1] = "dict" THEN doc.summary[2].total_amount ELSE NONE
    IN  IF t = NONE THEN doc.invoice_amount ELSE t

\* a query that asks for the invoice date in both versions
ExactQuery_dated(doc, with_date) ==
    [invoice_no    |-> IF TextTruthy(doc.invoice_no) THEN doc.invoice_no ELSE NONE,
     gstin_company |-> IF TextTruthy(doc.gstin_company) THEN doc.gstin_company ELSE NONE,
     invoice_date  |-> IF TextTruthy(doc.invoice_date) THEN doc.invoice_date ELSE NONE,
     total         |-> QueryTotal(doc)]

\* the query dict of is_exact_duplicate; with_date: the data_base version
\* also asks for invoice_date.  A key left out is NONE.
ExactQuery(doc, with_date) ==
    [invoice_no    |-> IF TextTruthy(doc.invoice_no) THEN doc.invoice_no ELSE NONE,
     gstin_company |-> IF TextTruthy(doc.gstin_company) THEN doc.gstin_company ELSE NONE,
     invoice_date  |-> IF with_date /\ TextTruthy(doc.invoice_date)
                       THEN doc.invoice_date ELSE NONE,
     total         |-> QueryTotal(doc)]

\* "if not query": no key was set
QueryEmpty(q) ==
    q.invoice_no = NONE /\ q.gstin_company = NONE /\ q.invoice_date = NONE /\ q.total = NONE

\* a match that leaves the invoice date out
QueryMatches_noDate(q, stored) ==
    /\ q.invoice_no = NONE \/ stored.invoice_no = q.invoice_no
    /\ q.gstin_company = NONE \/ stored.gstin_company = q.gstin_company
    /\ q.total = NONE
        \/ (stored.summary[1] = "dict" /\ stored.summary[2].total_amount = q.total)
        \/ stored.invoice_amount = q.total

\* MongoDB's match of one stored document against the query
QueryMatches(q, stored) ==
    /\ q.invoice_no = NONE \/ stored.invoice_no = q.invoice_no
    /\ q.gstin_company = NONE \/ stored.gstin_company = q.gstin_company
    /\ q.invoice_date = NONE \/ stored.invoice_date = q.invoice_date
    /\ q.total = NONE
        \/ (stored.summary[1] = "dict" /\ stored.summary[2].total_amount = q.total)
        \/ stored.invoice_amount = q.total

\* find_one(query): the first stored entry that matches, <<>> for None
FindOne(q, coll) ==
    LET hits == { i \in 1..Len(coll) : QueryMatches(q, coll[i].doc) }
    IN  IF hits = {} THEN <<>>
        ELSE << coll[CHOOSE i \in hits : \A j \in hits : i <= j] >>

\* is_exact_duplicate(doc) against the invoices collection coll
is_exact_duplicate(doc, coll, with_date) ==
    LET query == ExactQuery(doc, with_date)
    IN  IF QueryEmpty(query) THEN <<>> ELSE FindOne(query, coll)

-----------------------------------------------------------------------------
(* src/data_base/embedding_utils.py, src/database/duplicate_detector.py *)

\* DEFAULT_THRESHOLD, in hundredths
DEFAULT_THRESHOLD == 95
DETECTOR_THRESHOLD == 88
\* top_k default
TOP_K == 5

\* normalize_for_embedding: vendor GSTIN and name, description and code of
\* each line, and summary gst, cgst, sgst.  json.dumps(norm, sort_keys=True)
\* writes the keys in sorted order: the record itself stands for that text.
normalize_for_embedding(doc) ==
    [gstin_company |-> doc.gstin_company,
     company_name  |-> doc.company_name,
     items |-> IF doc.items[1] = "list"
               THEN [i \in 1..Len(doc.items[2]) |->
                        [description |-> doc.items[2][i].description,
                         hsn_sac |-> doc.items[2][i].hsn_sac]]
               ELSE <<>>,
     summary |-> IF doc.summary[1] = "dict"
                 THEN [gst |-> doc.summary[2].gst, cgst |-> doc.summary[2].cgst,
                       sgst |-> doc.summary[2].sgst]
                 ELSE [gst |-> NONE, cgst |-> NONE, sgst |-> NONE]]

\* model.encode(text): the sentence-embedding model, a deterministic map
\* from the text to a vector; here the texts are told apart by their lines
model_encode(text) ==
    IF text.items = <<>> THEN <<1, 1>>
    ELSE CASE text.items[1].description = Text("widget")   -> <<10, 0>>
           [] text.items[1].description = Text("sprocket") -> <<10, 2>>
           [] OTHER                                        -> <<0, 10>>

Dot(a, b) == SumSeq([i \in 1..Len(a) |-> a[i] * b[i]])

\* a similarity that drops the sign of the dot product
cosine_similarity_unsigned(a, b) ==
    LET na == Dot(a, a)
        nb == Dot(b, b)
    IN  IF na * nb = 0 THEN [raised |-> FALSE, n |-> 0, d |-> 1]
        ELSE IF Len(a) # Len(b) THEN [raised |-> TRUE]
        ELSE [raised |-> FALSE, n |-> Dot(a, b) * Dot(a, b), d |-> na * nb]

\* cosine_similarity(a, b) as the fraction sign * dot^2 / (|a|^2 |b|^2),
\* the square of the cosine with its sign; 0 when a norm is 0 (tested
\* first); "raise" when np.dot rejects the shapes
cosine_similarity(a, b) ==
    LET na == Dot(a, a)
        nb == Dot(b, b)
    IN  IF na * nb = 0 THEN [raised |-> FALSE, n |-> 0, d |-> 1]
        ELSE IF Len(a) # Len(b) THEN [raised |-> TRUE]
        ELSE LET d == Dot(a, b)
             IN  [raised |-> FALSE, n |-> IF d < 0 THEN -(d * d) ELSE d * d,
                  d |-> na * nb]

\* sim >= threshold, threshold in hundredths (0 < threshold)
AtLeast(sim, threshold) == sim.n * 10000 >= threshold * threshold * sim.d

\* x's score is greater than y's
ScoreGreater(x, y) == x.score.n * y.score.d > y.score.n * x.score.d

\* candidates.sort(key=score, reverse=True): stable, descending
RECURSIVE InsertDesc(_, _)
InsertDesc(sorted, x) ==
    IF sorted = <<>> THEN <<x>>
    ELSE IF ScoreGreater(x, Head(sorted)) THEN <<x>> \o sorted
    ELSE <<Head(sorted)>> \o InsertDesc(Tail(sorted), x)

RECURSIVE SortDesc(_)
SortDesc(s) ==
    IF s = <<>> THEN <<>>
    ELSE InsertDesc(SortDesc(SubSeq(s, 1, Len(s) - 1)), s[Len(s)])

\* str(value) of a stored invoice_id or file_name: None reads "None"
py_str(v) == IF v = NONE THEN <<"text", "None">> ELSE v

\* the scan of find_similar_embeddings over coll[i..]; by_id: the detector
\* reports invoice_id, data_base reports file_name
RECURSIVE ScanFrom(_, _, _, _, _)
ScanFrom(embedding, coll, i, threshold, by_id) ==
    IF i > Len(coll) THEN <<>>
    ELSE LET rest  == ScanFrom(embedding, coll, i + 1, threshold, by_id)
             other == coll[i].embedding
             sim   == cosine_similarity(embedding, other)
         IN  IF other = <<>> THEN rest
             ELSE IF sim.raised THEN rest
             ELSE IF AtLeast(sim, threshold)
                  THEN << [name |-> py_str(IF by_id THEN coll[i].invoice_id
                                           ELSE coll[i].file_name),
                           score |-> sim] >> \o rest
             ELSE rest

find_similar_embeddings(embedding, coll, top_k, threshold, by_id) ==
    LET candidates == SortDesc(ScanFrom(embedding, coll, 1, threshold, by_id))
    IN  SubSeq(candidates, 1, IF Len(candidates) < top_k THEN Len(candidates) ELSE top_k)

\* compute_embedding_for_doc of data_base: the vector, or [] when anything
\* inside the try raises (ok = FALSE: the model cannot be loaded or encode
\* fails)
compute_embedding_for_doc(doc, ok) ==
    IF ok THEN model_encode(normalize_for_embedding(doc)) ELSE <<>>

-----------------------------------------------------------------------------
(* src/src/InvoiceHSNChecker.py *)

\* process_invoice(invoice_data): "Success" when no line carries a code;
\* raises when items is null (iteration over None) and at the first line
\* that carries a code (the call of the undefined name fetch_hsn_desrtails)
hsn_process(doc) ==
    IF doc.items[1] = "null" THEN "raise"
    ELSE LET items == IF doc.items[1] = "list" THEN doc.items[2] ELSE <<>>
         IN  IF \E i \in 1..Len(items) : TextTruthy(items[i].hsn_sac)
             THEN "raise" ELSE "Success"

-----------------------------------------------------------------------------
(* src/data_base/app.py: the checks of one extracted file *)

Msg(m) == [msg |-> m, raw |-> FALSE]
\* an f-string that embeds the text of a caught exception
ExcMsg(m) == [msg |-> m, raw |-> TRUE]

\* the sentinel is never recognised
IsFailedExtraction_never(result) == FALSE

\* result == "Failed Extraction"
IsFailedExtraction(result) == result[1] = "failed"

\* check_invoice_data_schema(normalize_invoice_data(result)) for a dict
check_invoice_data_schema(doc) ==
    LET summary == IF doc.summary[1] = "dict" THEN doc.summary[2] ELSE EmptySummary
        total == summary.total_amount
        tax   == summary.tax_amount
    IN  (IF TextTruthy(doc.invoice_no) THEN <<>> ELSE << Msg("Missing invoice number") >>)
        \o (IF TextTruthy(doc.gstin_company) /\ StrLen(doc.gstin_company[2]) # 15
            THEN << Msg("Invalid GSTIN length") >> ELSE <<>>)
        \o (IF total[1] \in {"none", "empty"} \/ (total[1] = "num" /\ total[2] <= 0)
            THEN << Msg("Total amount should be positive or present") >> ELSE <<>>)
        \o (IF tax[1] = "num" /\ tax[2] < 0
            THEN << Msg("Tax cannot be negative") >> ELSE <<>>)

\* lines 177-190: what the arithmetic block adds to the errors of the file
ArithErrors(arith_res) ==
    IF arith_res.raised
    THEN << ExcMsg("Arithmetic check failed: Arithmetic check exception") >>
    ELSE IF arith_res.status THEN <<>>
    ELSE << Msg("Arithmetic check failed") >>

\* the checks with the arithmetic block left out
AppChecks_noArith(result, gst_ok, avail) ==
    IF result[1] # "doc"
    THEN [crash |-> FALSE, events |-> <<"schema", "gst", "hsn">>,
          errors |-> << Msg("Missing invoice number") >>]
    ELSE LET doc == result[2]
         IN  [crash |-> FALSE, events |-> <<"schema", "gst", "hsn">>,
              errors |-> check_invoice_data_schema(doc)
                 \o (IF gst_ok THEN <<>> ELSE << Msg("GSTIN validation failed") >>)]

\* lines 155-218 for one extraction result: the events in program order, the
\* collected errors, and whether an exception leaves the loop uncaught
\* (summary null: summary.get in normalize_invoice_data; a tax_amount string:
\* "<" between str and int in check_invoice_data_schema).  avail: the
\* imports of arthimeticCheck and InvoiceHSNChecker (lines 33-49) found the
\* modules; when they did not, the stand-ins answer status False
AppChecks(result, gst_ok, avail) ==
    IF ~avail /\ result[1] = "doc"
       /\ (result[2].summary[1] = "null"
           \/ (result[2].summary[1] = "dict"
               /\ result[2].summary[2].tax_amount[1] \in {"str", "empty", "bad"}))
    THEN [crash |-> TRUE, events |-> <<"schema">>, errors |-> <<>>]
    ELSE IF ~avail
    THEN [crash |-> FALSE,
          events |-> <<"schema", "gst", "arith", "hsn">>,
          errors |-> (IF result[1] = "doc" THEN check_invoice_data_schema(result[2])
                      ELSE << Msg("Missing invoice number"),
                              Msg("Total amount should be positive or present") >>)
                     \o (IF gst_ok THEN <<>> ELSE << Msg("GSTIN validation failed") >>)
                     \o << Msg("Arithmetic check failed: arithmetic validator not available"),
                           Msg("HSN check failed: hsn checker not available") >>]
    ELSE IF result[1] # "doc"
    THEN \* not a dict: every .get is guarded or caught
         [crash |-> FALSE,
          events |-> <<"schema", "gst", "arith", "hsn">>,
          errors |-> << Msg("Missing invoice number"),
                        Msg("Total amount should be positive or present") >>
                     \o (IF gst_ok THEN <<>> ELSE << Msg("GSTIN validation failed") >>)
                     \o << ExcMsg("Arithmetic check failed: Arithmetic check exception"),
                           ExcMsg("HSN check exception") >>]
    ELSE
      LET doc == result[2]
      IN  IF doc.summary[1] = "null"
             \/ (doc.summary[1] = "dict"
                 /\ doc.summary[2].tax_amount[1] \in {"str", "empty", "bad"})
          THEN [crash |-> TRUE, events |-> <<"schema">>, errors |-> <<>>]
          ELSE
            [crash |-> FALSE,
             events |-> <<"schema", "gst", "arith", "hsn">>,
             errors |-> check_invoice_data_schema(doc)
                \o (IF gst_ok THEN <<>> ELSE << Msg("GSTIN validation failed") >>)
                \o ArithErrors(validate_invoice(doc, FALSE, FALSE))
                \o (IF hsn_process(doc) = "Success" THEN <<>>
                    ELSE << ExcMsg("HSN check exception") >>)]

-----------------------------------------------------------------------------
(* Spec: workers running the entry points against the shared store *)

\* the workers: Streamlit sessions and command-line runs share only the store
Workers == {"w1", "w2"}
\* records taken up over a run, all workers together
MaxCalls == 3
\* most files of one upload
MaxFiles == 2

\* the entry points that take one record
DirectFns == {"insert_doc", "insert_one_json", "process_invoice", "process_file"}

\* no entry point catches
Caught_none(fn) == FALSE

\* the entry points whose body is one try/except Exception
\* (load_jsons.py lines 24/57 and 71/97); process_invoice and process_file
\* have none
Caught(fn) == fn \in {"app", "insert_doc", "insert_one_json"}

\* the load_jsons.py entry points check for a fuzzy match before they insert
ChecksBeforeInsert(fn) == fn \in {"app", "insert_doc", "insert_one_json"}

\* data_base/duplicate_utils.py asks for invoice_date too; the detector's own
\* is_exact_duplicate does not
WithDate(fn) == fn # "process_file"

\* a threshold above every cosine
ThresholdOf_above(fn) == 101

\* threshold and reported name of the find_similar_embeddings each uses
ThresholdOf(fn) == IF fn = "process_file" THEN DETECTOR_THRESHOLD ELSE DEFAULT_THRESHOLD
ById(fn) == fn = "process_file"

\* what a call hands back; exc: an exception was raised inside the call; raw:
\* the value carries the text of that exception
NoResult == [kind |-> "none", status |-> "", id |-> NONE, matches |-> <<>>,
             inserted_id |-> NONE, exc |-> FALSE, raw |-> FALSE]

IdleW == [pc |-> "idle", fn |-> "none", avail |-> TRUE,
          doc |-> <<"none">>, file_name |-> NONE,
          insert |-> FALSE, emb |-> <<>>, matches |-> <<>>, inserted |-> NONE,
          existing |-> <<>>, result |-> NoResult, log |-> <<>>,
          files |-> 0, rows |-> <<>>, anomalies |-> <<>>]

\* an ObjectId of the store
Id(n) == <<"id", n>>

\* str(_id): the 24 hex digits of an ObjectId; None stays None where the
\* code tests for it first
str_id(id) == IF id = NONE THEN NONE ELSE <<"hex", id[2]>>

\* the name of the k-th file of an upload, counted from the end
FileName(k) == IF k = 1 THEN Text("f1.pdf") ELSE IF k = 2 THEN Text("f2.pdf")
               ELSE Text("f3.pdf")

\* the result of the exact-duplicate query is ignored
ExactHit_never(existing) == FALSE

\* "if existing:"
ExactHit(existing) == existing # <<>>

\* the matches are ignored
FuzzyHit_never(emb, matches) == FALSE

\* "if emb:" then "if matches:" of insert_doc and insert_one_json
FuzzyHit(emb, matches) == emb # <<>> /\ matches # <<>>

\* the scan runs whatever the vector
AfterEmbed_always(emb) == "fuzzy"

\* "if emb:": an empty vector skips the fuzzy scan
AfterEmbed(emb) == IF emb # <<>> THEN "fuzzy" ELSE "ins_inv"

\* a store with a unique index on the invoice fields: an insert that repeats
\* a stored invoice leaves the collection as it is
insert_one_unique(coll, id, doc) ==
    IF \E i \in 1..Len(coll) : coll[i].doc = doc THEN coll
    ELSE Append(coll, [id |-> Id(id), doc |-> doc])

\* invoices_collection.insert_one(doc): the store appends the document under
\* a fresh _id; it holds no unique index on the invoice fields
insert_one(coll, id, doc) == Append(coll, [id |-> Id(id), doc |-> doc])

\* the embedding record without its link to the invoice
EmbDoc_unlinked(inserted_id, emb, file_name) ==
    [invoice_id |-> NONE, embedding |-> emb, file_name |-> file_name]

\* the embedding record stored for an inserted invoice
EmbDoc(inserted_id, emb, file_name) ==
    [invoice_id |-> str_id(inserted_id), embedding |-> emb, file_name |-> file_name]

\* what the entry point hands back when an exact duplicate is found
DupResult(fn, existing) ==
    CASE fn \in {"app", "insert_doc"} ->
            [NoResult EXCEPT !.kind = "dup", !.status = "420",
                             !.id = str_id(existing[1].id)]
      [] fn = "insert_one_json" -> [NoResult EXCEPT !.kind = "returned_none"]
      [] OTHER -> [NoResult EXCEPT !.kind = "report", !.id = str_id(existing[1].id)]

\* what it hands back when the fuzzy scan finds matches
FuzzyResult(fn, matches) ==
    IF fn = "insert_one_json" THEN [NoResult EXCEPT !.kind = "returned_none"]
    ELSE [NoResult EXCEPT !.kind = "fuzzy", !.status = "420", !.matches = matches]

\* what it hands back after the embedding record is stored
DoneResult(s) ==
    CASE s.fn \in {"app", "insert_doc"} -> [NoResult EXCEPT !.kind = "ok", !.status = "200"]
      [] s.fn = "insert_one_json" -> [NoResult EXCEPT !.kind = "returned_none"]
      [] OTHER -> [NoResult EXCEPT !.kind = "report", !.matches = s.matches,
                                   !.inserted_id = str_id(s.inserted)]

\* an exception inside the entry point: insert_doc returns {"error": str(e)},
\* insert_one_json logs it and returns None, the others let it escape
Raised(s) ==
    [s EXCEPT !.pc = "ret",
              !.result =
                 IF ~Caught(s.fn) THEN [NoResult EXCEPT !.kind = "raised", !.exc = TRUE]
                 ELSE IF s.fn = "insert_one_json"
                      THEN [NoResult EXCEPT !.kind = "returned_none", !.exc = TRUE]
                      ELSE [NoResult EXCEPT !.kind = "error", !.exc = TRUE,
                                            !.raw = TRUE]]

\* the loop of app.py goes on to the next file, or to the dashboard; the
\* locals of the insert_doc call are gone
NextFile(s) ==
    [s EXCEPT !.files = @ - 1,
              !.emb = <<>>, !.matches = <<>>, !.inserted = NONE,
              !.existing = <<>>, !.result = NoResult,
              !.pc = IF s.files - 1 = 0 THEN "app_done"
                     ELSE IF s.fn = "main" THEN "main_file" ELSE "app_file"]

Row(s, status) == [file |-> FileName(s.files), status |-> status]
Anomaly(s, errors) == [file |-> FileName(s.files), errors |-> errors]

StoreUnchanged == UNCHANGED <<invoices, embeddings, nextId>>
ArithUnchanged == UNCHANGED <<inv, tieUp, fpEdge, res, faults, args>>

\* how a store operation can end: TRUE it succeeds, FALSE pymongo raises (the
\* server is away, a write is refused); faults tells whether the store of
\* this run can fail at all
StoreOutcomes == IF faults THEN BOOLEAN ELSE {TRUE}

Init ==
    /\ inv = <<>>
    /\ tieUp = FALSE
    /\ fpEdge = FALSE
    /\ res = <<>>
    /\ invoices = <<>>
    /\ embeddings = <<>>
    /\ nextId = 1
    /\ calls = 0
    /\ faults \in BOOLEAN
    /\ w = [p \in Workers |-> IdleW]
    /\ args = <<>>

\* the worker's record (the sentinel never gets this far)
DocOf(s) == s.doc[2]

\* the step after an exact-duplicate query that found nothing
\*  - insert_doc: the default file name (doc["invoice_number"] + ';' +
\*    doc["invoiced_date"], a KeyError for a record without these keys), then
\*    the embedding and "if emb:"
\*  - insert_one_json: the embedding and "if emb:"
\*  - process_invoice, process_file: insert first when asked to, else the
\*    embedding (process_file's own compute_embedding_for_doc raises on failure)
AfterExactMiss(s, emb_ok) ==
    CASE s.fn \in {"app", "insert_doc"} ->
            IF s.file_name = NONE /\ ~DocOf(s).alt_keys THEN Raised(s)
            ELSE LET emb == compute_embedding_for_doc(DocOf(s), emb_ok)
                 IN  [s EXCEPT !.file_name = IF s.file_name = NONE
                                             THEN Text("number;date") ELSE @,
                               !.emb = emb,
                               !.log = Append(@, "embed"),
                               !.pc = AfterEmbed(emb)]
      [] s.fn = "insert_one_json" ->
            LET emb == compute_embedding_for_doc(DocOf(s), emb_ok)
            IN  [s EXCEPT !.emb = emb, !.log = Append(@, "embed"),
                          !.pc = AfterEmbed(emb)]
      [] OTHER ->
            IF s.insert THEN [s EXCEPT !.pc = "ins_inv"]
            ELSE IF s.fn = "process_file" /\ ~emb_ok
                 THEN Raised([s EXCEPT !.log = Append(@, "embed")])
                 ELSE [s EXCEPT !.emb = compute_embedding_for_doc(DocOf(s), emb_ok),
                                !.log = Append(@, "embed"),
                                !.pc = "fuzzy"]

\* existing = is_exact_duplicate(doc), the first statement of every entry
\* point ("Check exact duplicate first"), and what follows it up to the next
\* store operation; "if existing:" returns at once
ExactStep(s0, coll, store_ok, emb_ok) ==
    LET s == [s0 EXCEPT !.log = Append(@, "exact")]
        existing == is_exact_duplicate(DocOf(s), coll, WithDate(s.fn))
    IN  IF ~store_ok THEN Raised(s)
        ELSE IF ExactHit(existing)
        THEN [s EXCEPT !.existing = existing,
                       !.result = DupResult(s.fn, existing),
                       !.pc = "ret"]
        ELSE AfterExactMiss(s, emb_ok)

\* a direct call of insert_doc(doc, file_name), insert_one_json(path),
\* process_invoice(doc, insert, file_name=...) or process_file(path, insert)
\* on one of docs, up to and with its exact-duplicate query
Call(p, fns, docs, max) ==
    /\ w[p].pc = "idle"
    /\ calls < max
    /\ \E fn \in fns, d \in docs, named \in BOOLEAN, ins \in BOOLEAN,
          store_ok \in StoreOutcomes, emb_ok \in BOOLEAN :
          /\ (fn # "insert_doc") => named
          /\ (fn \in {"insert_doc", "insert_one_json"}) => ins
          /\ w' = [w EXCEPT ![p] =
                      ExactStep([IdleW EXCEPT !.fn = fn, !.doc = <<"doc", d>>,
                                    !.file_name = IF named THEN FileName(1) ELSE NONE,
                                    !.insert = ins],
                                invoices, store_ok, emb_ok)]
    /\ calls' = calls + 1
    /\ StoreUnchanged /\ ArithUnchanged

\* "Run Inference and Validate" pressed with n uploaded files, in a process
\* whose imports found the validator modules (avail) or not
StartApp(p) ==
    /\ w[p].pc = "idle"
    /\ \E n \in 1..MaxFiles, avail \in BOOLEAN :
          /\ calls + n <= MaxCalls
          /\ calls' = calls + n
          /\ w' = [w EXCEPT ![p] = [IdleW EXCEPT !.pc = "app_file", !.fn = "app",
                                                 !.files = n, !.avail = avail]]
    /\ StoreUnchanged /\ ArithUnchanged

\* lines 220-232: any error fails the file (summary row and anomaly), none
\* hands the record to insert_doc, whose first statement is the exact query;
\* an exception outside the try blocks ends the script run
AppOutcome(s, v, coll, store_ok, emb_ok) ==
    IF v.crash THEN [s EXCEPT !.log = @ \o v.events, !.pc = "crashed"]
    ELSE IF v.errors # <<>>
    THEN NextFile([s EXCEPT !.log = @ \o v.events,
                            !.rows = Append(@, Row(s, "Failed")),
                            !.anomalies = Append(@, Anomaly(s, v.errors))])
    ELSE ExactStep([s EXCEPT !.log = @ \o v.events], coll, store_ok, emb_ok)

\* lines 142-153: the file is named and extracted; the sentinel is recorded
\* as "Extraction failed" and the loop continues
AppExtracted(s, result, gst_ok, coll, store_ok, emb_ok) ==
    IF IsFailedExtraction(result)
    THEN NextFile([s EXCEPT !.rows = Append(@, Row(s, "Failed")),
                            !.anomalies = Append(@, Anomaly(s, << Msg("Extraction failed") >>))])
    ELSE AppOutcome(s, AppChecks(result, gst_ok, s.avail), coll, store_ok, emb_ok)

\* one pass of the file loop of app.py up to its first store operation:
\* lines 142-153, run_inference and the sentinel test; lines 155-230, the
\* schema, GSTIN, arithmetic and HSN checks and the outcome; insert_doc's
\* exact-duplicate query
AppFile(p) ==
    /\ w[p].pc = "app_file"
    /\ \E result \in { <<"failed">> } \cup { <<"doc", d>> : d \in DocPool },
          gst_ok \in BOOLEAN, store_ok \in StoreOutcomes, emb_ok \in BOOLEAN :
          w' = [w EXCEPT ![p] =
                  AppExtracted([w[p] EXCEPT !.doc = result, !.log = <<"extract">>,
                                            !.file_name = FileName(w[p].files)],
                               result, gst_ok, invoices, store_ok, emb_ok)]
    /\ UNCHANGED calls
    /\ StoreUnchanged /\ ArithUnchanged

\* matches = find_similar_embeddings(emb): the scan of the embeddings
\* collection; load_jsons.py returns on a match, process_invoice and
\* process_file only report the matches and go on to store the embedding
Fuzzy(p) ==
    /\ w[p].pc = "fuzzy"
    /\ \E store_ok \in StoreOutcomes :
          LET s == [w[p] EXCEPT !.log = Append(@, "fuzzy")]
              matches == find_similar_embeddings(s.emb, embeddings, TOP_K,
                                                 ThresholdOf(s.fn), ById(s.fn))
          IN  w' = [w EXCEPT ![p] =
                      IF ~store_ok THEN Raised(s)
                      ELSE IF ChecksBeforeInsert(s.fn)
                      THEN IF FuzzyHit(s.emb, matches)
                           THEN [s EXCEPT !.matches = matches,
                                          !.result = FuzzyResult(s.fn, matches),
                                          !.pc = "ret"]
                           ELSE [s EXCEPT !.pc = "ins_inv"]
                      ELSE [s EXCEPT !.matches = matches, !.pc = "ins_emb"]]
    /\ UNCHANGED calls
    /\ StoreUnchanged /\ ArithUnchanged

\* invoices_collection.insert_one(doc); insert_doc then computes the
\* embedding again, process_invoice and process_file compute it now
InsInv(p) ==
    /\ w[p].pc = "ins_inv"
    /\ \E store_ok \in StoreOutcomes, emb_ok \in BOOLEAN :
          LET s == w[p]
              s1 == [s EXCEPT !.inserted = Id(nextId), !.log = Append(@, "ins_inv")]
              emb == compute_embedding_for_doc(DocOf(s), emb_ok)
          IN  IF ~store_ok
              THEN /\ w' = [w EXCEPT ![p] = Raised(s)]
                   /\ StoreUnchanged
              ELSE /\ invoices' = insert_one(invoices, nextId, DocOf(s))
                   /\ nextId' = nextId + 1
                   /\ UNCHANGED embeddings
                   /\ w' = [w EXCEPT ![p] =
                         CASE s.fn \in {"app", "insert_doc"} ->
                                 [s1 EXCEPT !.emb = emb, !.log = Append(@, "embed"),
                                            !.pc = "ins_emb"]
                           [] s.fn = "insert_one_json" -> [s1 EXCEPT !.pc = "ins_emb"]
                           [] OTHER ->
                                 IF s.fn = "process_file" /\ ~emb_ok
                                 THEN Raised([s1 EXCEPT !.log = Append(@, "embed")])
                                 ELSE [s1 EXCEPT !.emb = emb, !.log = Append(@, "embed"),
                                                 !.pc = "fuzzy"]]
    /\ UNCHANGED calls
    /\ ArithUnchanged

\* embeddings_collection.insert_one(emb_doc), then the return
InsEmb(p) ==
    /\ w[p].pc = "ins_emb"
    /\ \E store_ok \in StoreOutcomes :
          LET s == w[p]
          IN  IF ~store_ok
              THEN /\ w' = [w EXCEPT ![p] = Raised(s)]
                   /\ UNCHANGED embeddings
              ELSE /\ embeddings' = Append(embeddings,
                                           EmbDoc(s.inserted, s.emb, s.file_name))
                   /\ w' = [w EXCEPT ![p] =
                               [s EXCEPT !.log = Append(@, "ins_emb"),
                                         !.result = DoneResult(s),
                                         !.pc = "ret"]]
    /\ UNCHANGED <<calls, invoices, nextId>>
    /\ ArithUnchanged

\* the caller takes the result: app.py lines 232-245 add the summary row (and
\* the anomaly, with the error text insert_doc returned) and go on; a direct
\* caller is done
Return(p) ==
    /\ w[p].pc = "ret"
    /\ LET s == w[p]
       IN  w' = [w EXCEPT ![p] =
                   IF s.fn # "app" THEN IdleW
                   ELSE IF s.result.status = "200"
                   THEN NextFile([s EXCEPT !.rows = Append(@, Row(s, "Success"))])
                   ELSE IF s.result.status = "420"
                   THEN NextFile([s EXCEPT !.rows = Append(@, Row(s, "Duplicate"))])
                   ELSE NextFile([s EXCEPT
                           !.rows = Append(@, Row(s, "Failed")),
                           !.anomalies = Append(@, Anomaly(s,
                               << [msg |-> "Mongo insert failed", raw |-> s.result.raw] >>))])]
    /\ UNCHANGED calls
    /\ StoreUnchanged /\ ArithUnchanged

\* validate_invoices_in_directory(directory) with n JSON files in it
StartMain(p) ==
    /\ w[p].pc = "idle"
    /\ \E n \in 1..MaxFiles :
          /\ calls + n <= MaxCalls
          /\ calls' = calls + n
          /\ w' = [w EXCEPT ![p] = [IdleW EXCEPT !.pc = "main_file", !.fn = "main",
                                                 !.files = n]]
    /\ StoreUnchanged /\ ArithUnchanged

\* one pass of the loop of main.py, lines 22-57.  The sentinel is reported
\* ("Extraction failed.") and the loop goes on.  Any other result goes to
\* result["gstin_company"] (a string has no such subscript), to
\* verify_gstin(...)['status'] (a bare False when the service answers other
\* than 200, and then the subscript raises), validate_invoice(result) and
\* process_invoice(result)['status'], which raises inside the checker or on
\* the subscript of its "Success" string; nothing catches these
MainFile(p) ==
    /\ w[p].pc = "main_file"
    /\ \E result \in { <<"failed">> } \cup { <<"doc", d>> : d \in DocPool },
          gst_dict \in BOOLEAN :
          LET s == [w[p] EXCEPT !.doc = result, !.log = <<"extract">>,
                                !.file_name = FileName(w[p].files)]
          IN  w' = [w EXCEPT ![p] =
                      IF IsFailedExtraction(result)
                      THEN NextFile([s EXCEPT
                              !.rows = Append(@, Row(s, "Extraction failed"))])
                      ELSE IF result[1] # "doc"
                      THEN [s EXCEPT !.pc = "crashed"]
                      ELSE IF ~gst_dict
                      THEN [s EXCEPT !.log = @ \o <<"gst">>, !.pc = "crashed"]
                      ELSE IF validate_invoice(result[2], FALSE, FALSE).raised
                      THEN [s EXCEPT !.log = @ \o <<"gst", "arith">>, !.pc = "crashed"]
                      ELSE [s EXCEPT !.log = @ \o <<"gst", "arith", "hsn">>,
                                     !.pc = "crashed"]]
    /\ UNCHANGED calls
    /\ StoreUnchanged /\ ArithUnchanged

\* the dashboard has been drawn or the directory is done, or the run died of
\* an exception
AppEnd(p) ==
    /\ w[p].pc \in {"app_done", "crashed"}
    /\ w' = [w EXCEPT ![p] = IdleW]
    /\ UNCHANGED calls
    /\ StoreUnchanged /\ ArithUnchanged

\* Spec: one caller at a time; the calls and the batches follow each other
Next ==
    \E p \in {"w1"} :
        \/ Call(p, DirectFns, DirectDocs, MaxCalls)
        \/ StartApp(p)
        \/ AppFile(p)
        \/ StartMain(p)
        \/ MainFile(p)
        \/ Fuzzy(p)
        \/ InsInv(p)
        \/ InsEmb(p)
        \/ Return(p)
        \/ AppEnd(p)

Spec == Init /\ [][Next]_vars

\* most calls of the two racing processes together
MaxRaceCalls == 2

\* SpecRace: two processes run the load_jsons.py entry points on the one
\* store; the store operations of the two calls interleave freely (nothing in the code holds a
\* lock or a transaction across them)
NextRace ==
    \E p \in Workers :
        \/ Call(p, {"insert_doc", "insert_one_json"}, DirectDocs, MaxRaceCalls)
        \/ Fuzzy(p)
        \/ InsInv(p)
        \/ InsEmb(p)
        \/ Return(p)

SpecRace == Init /\ [][NextRace]_vars

\* most calls of a sequence of insert_doc calls
MaxSeqCalls == 3

\* the number, GSTIN and total of DocA and the line text of DocB, with no
\* invoice date
DocF == [DocB EXCEPT !.invoice_date = NONE]

\* the records of the sequence: DocA; DocB and DocF, which share its number,
\* GSTIN and total under another line text, DocF without a date; DocC, which
\* shares its vendor, line text and tax rates
SeqDocs == { DocA, DocB, DocC, DocF }

\* SpecSeq: one caller calls insert_doc again and again, each call returning
\* before the next begins
NextSeq ==
    \E p \in {"w1"} :
        \/ Call(p, {"insert_doc"}, SeqDocs, MaxSeqCalls)
        \/ Fuzzy(p)
        \/ InsInv(p)
        \/ InsEmb(p)
        \/ Return(p)

SpecSeq == Init /\ [][NextSeq]_vars

-----------------------------------------------------------------------------
(* SpecArith: validate_invoice on records drawn from bounded sets *)

\* most line items of a generated record
MaxItems == 3

\* line items (quantity whole, rate and amount in 10^-5): consistent with a
\* sub-cent rate, 1.2 cents under a sub-cent product, consistent, off by one
\* unit, rescued (no quantity and rate), amount missing
ArithItemPool ==
    { [quantity |-> Num(1), rate |-> Num(100400), amount |-> Num(100400)],
      [quantity |-> Num(1), rate |-> Num(100400), amount |-> Num(99200)],
      [quantity |-> Str(2), rate |-> Num(200000), amount |-> Str(400000)],
      [quantity |-> Num(2), rate |-> Num(200000), amount |-> Num(500000)],
      [quantity |-> NONE,   rate |-> NONE,        amount |-> Num(250000)],
      [quantity |-> Num(2), rate |-> Num(200000), amount |-> NONE] }

RECURSIVE SeqsUpTo(_, _)
SeqsUpTo(S, n) ==
    IF n = 0 THEN { <<>> }
    ELSE LET shorter == SeqsUpTo(S, n - 1)
         IN  shorter \cup { Append(s, x) : s \in { t \in shorter : Len(t) = n - 1 }, x \in S }

\* sum of the amounts the lines declare
RECURSIVE AmountSum(_, _)
AmountSum(items, i) ==
    IF i > Len(items) THEN 0
    ELSE clean_number(items[i].amount) + AmountSum(items, i + 1)

\* cgst, sgst, igst as the summary declares them
TaxTriples == { <<0, 0, 0>>, <<9, 9, 0>>, <<0, 0, 50>>, <<60, 0, 0>> }

\* an optional money field: absent, or the number
OptNum(present, n) == IF present THEN Num(n) ELSE NONE

\* records an extraction can hand over besides the well-formed ones: "items"
\* or "summary" missing or null, fields empty, unparseable or comma-grouped
ArithOddRecords ==
    { [items |-> <<"null">>,   summary |-> <<"dict", EmptySummary>>],
      [items |-> <<"absent">>, summary |-> <<"null">>],
      [items |-> <<"absent">>, summary |-> <<"absent">>],
      [items |-> <<"list", << [quantity |-> <<"bad">>, rate |-> <<"empty">>,
                               amount |-> Str(100000)],
                              [quantity |-> Str(2), rate |-> <<"bad">>,
                               amount |-> <<"empty">>] >> >>,
       summary |-> <<"dict", [EmptySummary EXCEPT !.subtotal = <<"bad">>,
                                                  !.cgst = <<"empty">>,
                                                  !.total_amount = Str(100000)]>>] }

\* records whose declared subtotal and tax_amount sit exactly 0.01 away from
\* the values worked out (tax fields read as amounts, and as percentages),
\* a record whose one line has a product exactly between two cents, and
\* records with a line that has a rate and an amount but no quantity, alone
\* and after a consistent line, the declared subtotal being the sum of the
\* line amounts, and a record of two lines that have only an amount, of a
\* fraction of a cent
ArithEdgeRecords ==
    { [items |-> <<"list", << [quantity |-> Num(2), rate |-> Num(200000),
                               amount |-> Num(400000)] >> >>,
       summary |-> <<"dict", [EmptySummary EXCEPT !.subtotal = Num(400000 + TolLine),
                                                  !.cgst = Num(t), !.sgst = Num(t),
                                                  !.tax_amount = Num(2 * t * One - TolLine)]>>]
      : t \in {9, 60} }
    \cup
    { [items |-> <<"list", << [quantity |-> Num(1), rate |-> Num(100500),
                               amount |-> Num(100500)] >> >>,
       summary |-> <<"dict", EmptySummary>>] }
    \cup
    { [items |-> <<"list", first \o << [quantity |-> NONE, rate |-> Num(5000000),
                                        amount |-> Num(5000000)] >> >>,
       summary |-> <<"dict", [EmptySummary EXCEPT
                                 !.subtotal = Num(AmountSum(first, 1) + 5000000)]>>]
      : first \in { <<>>, << [quantity |-> Num(2), rate |-> Num(200000),
                              amount |-> Num(400000)] >> } }
    \cup
    { [items |-> <<"list", << [quantity |-> NONE, rate |-> NONE, amount |-> Num(100400)],
                              [quantity |-> NONE, rate |-> NONE, amount |-> Num(100400)] >> >>,
       summary |-> <<"dict", EmptySummary>>] }

InitArith ==
    /\ \/ inv \in ArithOddRecords
       \/ inv \in ArithEdgeRecords
       \/ \E items \in SeqsUpTo(ArithItemPool, MaxItems),
          t \in TaxTriples,
          subKind \in {"none", "sum", "off"},
          taxDeclared \in BOOLEAN,
          totKind \in {"none", "exact", "edge", "off"},
          ro \in {0, 50000} :
          LET S   == AmountSum(items, 1)
              sub == IF subKind = "off" THEN S + 2 * Cent ELSE S
              tax == (t[1] + t[2] + t[3]) * One
              tot == sub + (sub * (t[1] + t[2] + t[3])) \div 100 + ro
          IN  inv = [items |-> <<"list", items>>,
                     summary |-> <<"dict",
                        [subtotal |-> OptNum(subKind # "none", sub),
                         tax_amount |-> OptNum(taxDeclared, tax),
                         total_amount |-> OptNum(totKind # "none",
                                            CASE totKind = "off"  -> tot + 150000
                                              [] totKind = "edge" -> tot + TolTotal
                                              [] OTHER            -> tot),
                         gst |-> NONE,
                         cgst |-> Num(t[1]), sgst |-> Num(t[2]), igst |-> Num(t[3]),
                         round_off |-> OptNum(ro # 0, ro)]>>]
    /\ tieUp \in BOOLEAN
    /\ fpEdge \in BOOLEAN
    /\ res = <<>>
    /\ invoices = <<>>
    /\ embeddings = <<>>
    /\ nextId = 1
    /\ calls = 0
    /\ faults = FALSE
    /\ w = [p \in Workers |-> IdleW]
    /\ args = <<>>

\* the call result = validate_invoice(invoice_data)
Validate ==
    /\ res = <<>>
    /\ res' = << validate_invoice(inv, tieUp, fpEdge) >>
    /\ UNCHANGED <<inv, tieUp, fpEdge, invoices, embeddings, nextId, calls, faults, w, args>>

NextArith == Validate

SpecArith == InitArith /\ [][NextArith]_vars

-----------------------------------------------------------------------------
(* SpecFn: the lookup and embedding functions on arguments from bounded sets *)

\* most records in the invoices collection a lookup runs against
MaxStored == 2
\* most records in the embeddings collection a scan runs against
MaxStoredEmb == 3

\* A Python dict is a sequence of <<key, value>> pairs in insertion order.
\* The keys of an extracted record in the order the prompt lists them
DocKeys ==
    <<"invoice_no", "invoice_date", "invoice_amount", "gstin_company",
      "company_details", "items", "summary">>

\* the same keys as another writer may emit them
DocKeysReversed ==
    <<"summary", "items", "company_details", "gstin_company",
      "invoice_amount", "invoice_date", "invoice_no">>

\* the dict holding the fields of doc in this key order ("company_details"
\* holding the name), with the "_id" key pymongo's insert_one adds when
\* with_id
as_dict(doc, order, with_id) ==
    [i \in 1..Len(order) |->
        <<order[i], IF order[i] = "company_details" THEN doc.company_name
                    ELSE doc[order[i]]>>]
        \o (IF with_id THEN << <<"_id", <<"id", 1>> >> >> ELSE <<>>)

\* a lookup that takes the value at the place the key has in the prompt
dict_get_positional(pairs, key, default) ==
    LET at == { i \in 1..Len(DocKeys) : DocKeys[i] = key }
    IN  IF at = {} THEN default
        ELSE LET i == CHOOSE j \in at : TRUE
             IN  IF i <= Len(pairs) THEN pairs[i][2] ELSE default

\* doc.get(key, default)
dict_get(pairs, key, default) ==
    LET at == { i \in 1..Len(pairs) : pairs[i][1] = key }
    IN  IF at = {} THEN default ELSE pairs[CHOOSE i \in at : TRUE][2]

\* doc = dict(doc); doc.pop(key): the copy without the key (the caller's
\* dict is another object and keeps it)
dict_pop(pairs, key) == SelectSeq(pairs, LAMBDA kv : kv[1] # key)

\* the fields the functions read from a dict, each through .get
from_pairs(pairs) ==
    [invoice_no     |-> dict_get(pairs, "invoice_no", NONE),
     gstin_company  |-> dict_get(pairs, "gstin_company", NONE),
     invoice_date   |-> dict_get(pairs, "invoice_date", NONE),
     invoice_amount |-> dict_get(pairs, "invoice_amount", NONE),
     company_name   |-> dict_get(pairs, "company_details", NONE),
     items          |-> dict_get(pairs, "items", <<"absent">>),
     summary        |-> dict_get(pairs, "summary", <<"absent">>),
     alt_keys       |-> FALSE]

\* the keys of the normalized dict in the order lines 39-50 insert them
NormKeys == <<"gstin_company", "company_name", "items", "summary">>
\* and in sorted order
SortedNormKeys == <<"company_name", "gstin_company", "items", "summary">>

\* json.dumps(norm, sort_keys): the key/value pairs in the order written
json_dumps(norm, sort_keys) ==
    LET keys == IF sort_keys THEN SortedNormKeys ELSE NormKeys
    IN  [i \in 1..Len(keys) |-> <<keys[i], norm[keys[i]]>>]

\* the text compute_embedding_for_doc hands to the model (lines 62-67)
embedding_text(pairs) ==
    json_dumps(normalize_for_embedding(from_pairs(dict_pop(pairs, "_id"))), TRUE)

\* a summary with this total_amount
SumWith(total) ==
    <<"dict", MkSummary(Num(10000000), Num(9), Num(9), Num(0), Num(1800000), total)>>

\* summary and invoice_amount as records carry them: both, the summary total
\* only, invoice_amount only, neither, no summary at all
TotalShapes ==
    { <<SumWith(Num(11800000)), Num(11800000)>>,
      <<SumWith(Num(5900000)), NONE>>,
      <<SumWith(NONE), Num(11800000)>>,
      <<SumWith(NONE), NONE>>,
      << <<"absent">>, Num(5900000)>> }

\* a record with one line of this text and quantity
KeyDoc(no, gstin, date, shape, desc, qty) ==
    [MkDoc(no, gstin, date, Text("Acme"),
           <<"list", << MkItem(desc, NONE, Num(qty), Num(1000000),
                               Num(qty * 1000000)) >> >>,
           shape[1], FALSE)
     EXCEPT !.invoice_amount = shape[2]]

\* records looked up: number, GSTIN and date present, empty or null
LookupDocs ==
    { KeyDoc(no, gstin, date, shape, desc, 10) :
        no \in { Text("INV-1"), Text("INV-2"), Text(""), NONE },
        gstin \in { GSTIN1, NONE },
        date \in { Text("01-Jan-25"), Text("02-Feb-25"), NONE },
        shape \in TotalShapes,
        desc \in { Text("widget"), Text("gadget") } }

\* records already stored
StoredDocs ==
    { KeyDoc(no, GSTIN1, date, shape, Text("widget"), 10) :
        no \in { Text("INV-1"), Text("INV-2") },
        date \in { Text("01-Jan-25"), Text("02-Feb-25") },
        shape \in { <<SumWith(Num(11800000)), Num(11800000)>>,
                    <<SumWith(Num(5900000)), NONE>> } }

\* records projected for the embedding: number, date, line text and
\* quantity vary under the summary cgst 9, sgst 9, igst 0; one record more
\* for each of the summaries that differ from it in igst, cgst or sgst alone
ProjectDocs ==
    { KeyDoc(no, GSTIN1, date, <<SumWith(Num(11800000)), NONE>>, desc, qty) :
        no \in { Text("INV-1"), Text("INV-2") },
        date \in { Text("01-Jan-25"), Text("02-Feb-25") },
        desc \in { Text("widget"), Text("gadget") },
        qty \in { 5, 10 } }
    \cup
    { KeyDoc(Text("INV-1"), GSTIN1, Text("01-Jan-25"),
             << <<"dict", MkSummary(Num(10000000), Num(t[1]), Num(t[2]), Num(t[3]),
                                    Num(1800000), Num(11800000))>>, NONE >>,
             Text("widget"), 10) :
        t \in { <<9, 9, 18>>, <<5, 9, 0>>, <<9, 5, 0>> } }

\* embedding vectors: three directions, the opposite of the first, the zero
\* vector, an empty list and a vector of another length
VecPool == { <<10, 0>>, <<10, 2>>, <<0, 10>>, <<-10, 0>>, <<0, 0>>, <<>>, <<1, 1, 1>> }

\* the embeddings collection holding these vectors, the odd records linked
\* to an invoice and named, the even ones neither
EmbStore(vs) ==
    [i \in 1..Len(vs) |->
        [invoice_id |-> IF i % 2 = 1 THEN <<"hex", i>> ELSE NONE,
         embedding  |-> vs[i],
         file_name  |-> IF i % 2 = 1 THEN <<"text", "f1.pdf">> ELSE NONE]]

InitFn ==
    /\ \/ \E d \in LookupDocs, st \in SeqsUpTo(StoredDocs, MaxStored) :
            /\ inv = as_dict(d, DocKeys, FALSE)
            /\ invoices = [i \in 1..Len(st) |-> [id |-> <<"id", i>>, doc |-> st[i]]]
            /\ embeddings = <<>>
            /\ args = [fn |-> "is_exact_duplicate"]
       \/ \E d \in ProjectDocs, e \in ProjectDocs,
             o \in { DocKeys, DocKeysReversed }, q \in { DocKeys, DocKeysReversed },
             i \in BOOLEAN, j \in BOOLEAN :
            /\ inv = as_dict(d, o, i)
            /\ invoices = <<>>
            /\ embeddings = <<>>
            /\ args = [fn |-> "compute_embedding_for_doc", other |-> as_dict(e, q, j)]
       \/ \E a \in VecPool, b \in VecPool, r \in { -1, 0, 1 } :
            /\ inv = <<>>
            /\ invoices = <<>>
            /\ embeddings = <<>>
            /\ args = [fn |-> "cosine_similarity", a |-> a, b |-> b, rounding |-> r]
       \/ \E vs \in SeqsUpTo(VecPool, MaxStoredEmb),
             e \in { <<10, 0>>, <<10, 2>>, <<0, 10>> },
             k \in { 1, 2, TOP_K },
             th \in { DEFAULT_THRESHOLD, DETECTOR_THRESHOLD },
             by_id \in BOOLEAN :
            /\ inv = <<>>
            /\ invoices = <<>>
            /\ embeddings = EmbStore(vs)
            /\ args = [fn |-> "find_similar_embeddings", embedding |-> e,
                       top_k |-> k, threshold |-> th, by_id |-> by_id]
    /\ tieUp = FALSE
    /\ fpEdge = FALSE
    /\ res = <<>>
    /\ nextId = 1
    /\ calls = 0
    /\ faults = FALSE
    /\ w = [p \in Workers |-> IdleW]

FnUnchanged ==
    UNCHANGED <<inv, tieUp, fpEdge, invoices, embeddings, nextId, calls, faults, w, args>>

\* is_exact_duplicate(doc) of data_base/duplicate_utils.py (with_date) or of
\* database/duplicate_detector.py
FindExact ==
    /\ res = <<>>
    /\ args.fn = "is_exact_duplicate"
    /\ \E with_date \in BOOLEAN :
         LET doc == from_pairs(inv)
         IN  res' = << [with_date |-> with_date,
                        queried |-> ~QueryEmpty(ExactQuery(doc, with_date)),
                        found |-> is_exact_duplicate(doc, invoices, with_date)] >>
    /\ FnUnchanged

\* the text of the record and of the record it is compared with
Project ==
    /\ res = <<>>
    /\ args.fn = "compute_embedding_for_doc"
    /\ res' = << [text |-> embedding_text(inv),
                  other_text |-> embedding_text(args.other)] >>
    /\ FnUnchanged

\* cosine_similarity(a, b); rounding is the error of the float division, in
\* units in the last place (the zero-norm branch returns the literal 0.0)
Similarity ==
    /\ res = <<>>
    /\ args.fn = "cosine_similarity"
    /\ LET sim == cosine_similarity(args.a, args.b)
       IN  res' = << [score |-> sim,
                      rounding |-> IF sim.raised \/ Dot(args.a, args.a) * Dot(args.b, args.b) = 0
                                   THEN 0 ELSE args.rounding] >>
    /\ FnUnchanged

\* find_similar_embeddings(embedding, top_k, threshold) of
\* database/duplicate_detector.py (by_id) or of data_base/embedding_utils.py
FindSimilar ==
    /\ res = <<>>
    /\ args.fn = "find_similar_embeddings"
    /\ res' = << [matches |-> find_similar_embeddings(args.embedding, embeddings,
                                  args.top_k, args.threshold, args.by_id)] >>
    /\ FnUnchanged

NextFn == FindExact \/ Project \/ Similarity \/ FindSimilar

SpecFn == InitFn /\ [][NextFn]_vars

-----------------------------------------------------------------------------
(* Claims about the pipelines (Spec, SpecRace) *)

Has(log, e) == \E i \in 1..Len(log) : log[i] = e
\* place of the first e in log (for a log that has one)
Pos(log, e) == CHOOSE i \in 1..Len(log) : log[i] = e /\ \A j \in 1..(i - 1) : log[j] # e
Last(seq) == seq[Len(seq)]
IsPrefix(a, b) == Len(a) <= Len(b) /\ SubSeq(b, 1, Len(a)) = a
StoreSame == invoices' = invoices /\ embeddings' = embeddings
LoadFns == {"app", "insert_doc", "insert_one_json"}

ExactFound(s, t) ==
    IF s.pc \in {"idle", "app_file"} /\ t.doc[1] = "doc" /\ Has(t.log, "exact")
       /\ ~t.result.exc
    THEN is_exact_duplicate(t.doc[2], invoices, WithDate(t.fn))
    ELSE <<>>

\* the call ends there: nothing after the query, both collections as they were
StopsAtExact(t) ==
    /\ t.pc = "ret"
    /\ Last(t.log) = "exact"
    /\ ~Has(t.log, "embed") /\ ~Has(t.log, "fuzzy")
    /\ ~Has(t.log, "ins_inv") /\ ~Has(t.log, "ins_emb")
    /\ StoreSame

\* C2 as stated: when is_exact_duplicate returns a stored record, insert_doc,
\* insert_one_json and process_invoice return that record's identifier and
\* compute no embedding, scan nothing and insert nothing.
C2_Original ==
    [][\A p \in Workers :
          LET found == ExactFound(w[p], w'[p])
          IN  (found # <<>> /\ w'[p].fn \in {"app", "insert_doc", "insert_one_json",
                                              "process_invoice"})
                  => /\ StopsAtExact(w'[p])
                     /\ w'[p].result.id = str_id(found[1].id)]_vars

\* C2 amended: when is_exact_duplicate returns a stored record, every entry
\* point stops there (no embedding, no scan, no insert, both collections
\* unchanged); insert_doc, process_invoice and process_file return that
\* record's identifier, insert_one_json only logs it and returns None.
C2_ShortCircuit ==
    [][\A p \in Workers :
          LET found == ExactFound(w[p], w'[p])
              r == w'[p].result
          IN  found # <<>>
                  => /\ StopsAtExact(w'[p])
                     /\ w'[p].fn \in {"app", "insert_doc"} =>
                            r.kind = "dup" /\ r.status = "420"
                            /\ r.id = str_id(found[1].id)
                     /\ w'[p].fn \in {"process_invoice", "process_file"} =>
                            r.kind = "report" /\ r.id = str_id(found[1].id)
                            /\ r.inserted_id = NONE
                     /\ w'[p].fn = "insert_one_json" =>
                            r.kind = "returned_none" /\ r.id = NONE]_vars

\* insert_doc is about to return the identifier of the stored duplicate
C2_Witness ==
    \E p \in Workers :
        /\ w[p].pc = "ret" /\ w[p].fn = "insert_doc"
        /\ w[p].existing # <<>>
        /\ w[p].result.kind = "dup"
        /\ \E i \in 1..Len(invoices) : w[p].result.id = str_id(invoices[i].id)

\* the step in which a call runs its fuzzy scan, and the scan finds a stored
\* embedding at or above the threshold
FuzzyFound(s, t) ==
    IF s.pc = "fuzzy" /\ t # s /\ ~t.result.exc
    THEN find_similar_embeddings(s.emb, embeddings, TOP_K, ThresholdOf(s.fn), ById(s.fn))
    ELSE <<>>

\* the record of this call is in neither collection, and the call is over
NothingInserted(t) ==
    /\ t.pc = "ret"
    /\ t.inserted = NONE
    /\ ~Has(t.log, "ins_inv") /\ ~Has(t.log, "ins_emb")
    /\ StoreSame

\* C3 as stated: in insert_doc, insert_one_json and process_invoice /
\* process_file with insert enabled, a fuzzy scan that finds a match means the
\* record is not inserted and no embedding is stored for it.
C3_Original ==
    [][\A p \in Workers :
          (FuzzyFound(w[p], w'[p]) # <<>>
           /\ (w[p].fn \in LoadFns \/ w[p].insert))
              => NothingInserted(w'[p])]_vars

\* C3 amended: in insert_doc and insert_one_json (the load_jsons.py entry
\* points), a fuzzy scan that finds a match ends the call with the record in
\* neither collection.  process_invoice and process_file with insert enabled
\* have inserted the record before the scan and store its embedding after it.
C3_NoInsertOnMatch ==
    [][\A p \in Workers :
          LET found == FuzzyFound(w[p], w'[p])
          IN  (found # <<>> /\ w[p].fn \in LoadFns)
                  => /\ NothingInserted(w'[p])
                     /\ w'[p].fn # "insert_one_json" =>
                            w'[p].result.kind = "fuzzy" /\ w'[p].result.status = "420"
                            /\ w'[p].result.matches = found]_vars

\* insert_doc is about to return the matches of its fuzzy scan
C3_Witness ==
    \E p \in Workers :
        /\ w[p].pc = "ret" /\ w[p].fn = "insert_doc"
        /\ w[p].result.kind = "fuzzy" /\ w[p].matches # <<>>
        /\ w[p].inserted = NONE
        /\ invoices # <<>>

\* the embedding records that carry the identifier of invoice id
EmbeddingsOf(id) == { j \in 1..Len(embeddings) : embeddings[j].invoice_id = str_id(id) }

\* C4: with a store that does not fail, every invoice that insert_doc /
\* insert_one_json calls have inserted has exactly one embedding record with
\* its identifier (none only while its call stands between the two inserts),
\* and every embedding record refers to a stored invoice.
C4_OneToOne ==
    ~faults =>
        /\ \A i \in 1..Len(invoices) :
              \/ Cardinality(EmbeddingsOf(invoices[i].id)) = 1
              \/ /\ EmbeddingsOf(invoices[i].id) = {}
                 /\ \E p \in Workers : w[p].pc = "ins_emb" /\ w[p].inserted = invoices[i].id
        /\ \A j \in 1..Len(embeddings) :
              \E i \in 1..Len(invoices) : embeddings[j].invoice_id = str_id(invoices[i].id)

\* two calls have run to their end and stored two invoices and their embeddings
C4_Witness ==
    /\ ~faults
    /\ \A p \in Workers : w[p].pc = "idle"
    /\ Len(invoices) = 2 /\ Len(embeddings) = 2

\* C5: between its duplicate checks and its insert a call holds no lock and
\* looks at the store no more: the insert of a call that passed its checks
\* appends the record whatever the store holds by then, so two interleaved
\* insert_doc runs of the same record both store it.
C5_InsertUnchecked ==
    [][\A p \in Workers :
          (w[p].pc = "ins_inv" /\ w'[p] # w[p] /\ ~w'[p].result.exc)
              => /\ invoices' = Append(invoices, [id |-> Id(nextId), doc |-> DocOf(w[p])])
                 /\ \A q \in Workers \ {p} : w'[q] = w[q]]_vars

\* two insert_doc runs of one record have both returned "200", and the
\* invoices collection holds the record twice
C5_Witness ==
    \E p, q \in Workers :
        /\ p # q
        /\ w[p].fn = "insert_doc" /\ w[q].fn = "insert_doc"
        /\ w[p].pc = "ret" /\ w[q].pc = "ret"
        /\ w[p].result.status = "200" /\ w[q].result.status = "200"
        /\ DocOf(w[p]) = DocOf(w[q])
        /\ Len(invoices) = 2
        /\ is_exact_duplicate(invoices[2].doc, <<invoices[1]>>, TRUE) # <<>>

\* C6: when the embedding cannot be computed, compute_embedding_for_doc
\* hands insert_doc the empty vector; insert_doc runs no fuzzy scan, goes on
\* to the insert, and (the store not failing) stores the record and returns
\* status "200".
C6_EmbeddingFailureSkipsFuzzy ==
    \A p \in Workers :
        LET s == w[p]
        IN  s.fn \in {"app", "insert_doc"} =>
              /\ (s.pc \in {"fuzzy", "ins_inv", "ins_emb", "ret"}
                  /\ Last(s.log) = "embed" /\ ~Has(s.log, "ins_inv") /\ s.emb = <<>>)
                    => \/ s.pc = "ins_inv" /\ ~s.result.exc
                       \/ faults /\ s.pc = "ret" /\ s.result.exc
              /\ (s.pc = "ret" /\ Has(s.log, "embed") /\ ~Has(s.log, "fuzzy")
                  /\ ~s.result.exc)
                    => /\ s.result.kind = "ok" /\ s.result.status = "200"
                       /\ \E i \in 1..Len(invoices) :
                             /\ invoices[i].id = s.inserted
                             /\ invoices[i].doc = DocOf(s)
                             /\ EmbeddingsOf(invoices[i].id) # {}

\* insert_doc is about to return "200" for a record it never scanned for
C6_Witness ==
    \E p \in Workers :
        /\ w[p].fn = "insert_doc" /\ w[p].pc = "ret"
        /\ w[p].result.status = "200"
        /\ Has(w[p].log, "embed") /\ ~Has(w[p].log, "fuzzy")

\* C7: a file whose extraction yields "Failed Extraction" goes to no
\* validator, no duplicate check and no insert; it is reported as an
\* extraction failure and the loop goes on to the next file (app.py and
\* main.py).
C7_SentinelSkipsAll ==
    [][\A p \in Workers :
          LET s == w[p]
              t == w'[p]
          IN  (s.pc \in {"app_file", "main_file"} /\ t # s /\ t.doc = <<"failed">>)
                  => /\ t.log = <<"extract">>
                     /\ t.files = s.files - 1
                     /\ t.pc = IF t.files = 0 THEN "app_done" ELSE s.pc
                     /\ Len(t.rows) = Len(s.rows) + 1
                     /\ s.fn = "app" =>
                            /\ Last(t.rows) = Row(s, "Failed")
                            /\ Len(t.anomalies) = Len(s.anomalies) + 1
                            /\ Last(t.anomalies) = Anomaly(s, << Msg("Extraction failed") >>)
                     /\ s.fn = "main" => Last(t.rows) = Row(s, "Extraction failed")
                     /\ StoreSame]_vars

\* the first file of an upload failed extraction and the second is up next
C7_Witness ==
    \E p \in Workers :
        /\ w[p].fn = "app" /\ w[p].pc = "app_file"
        /\ w[p].doc = <<"failed">>
        /\ Len(w[p].rows) = 1 /\ w[p].rows[1].status = "Failed"

\* C8: a store operation that fails inside insert_doc ends that call with an
\* error result, never with an exception; the step leaves both collections
\* as they were, the collections only ever grow, and the file loop of app.py
\* records the failure and goes on to its next file.
C8_StoreFailureContained ==
    [][\A p \in Workers :
          LET s == w[p]
              t == w'[p]
          IN  /\ t.fn \in {"app", "insert_doc"} => t.result.kind # "raised"
              /\ (t.fn \in {"app", "insert_doc"} /\ t.result.exc /\ ~s.result.exc)
                    => t.pc = "ret" /\ t.result.kind = "error" /\ StoreSame
              /\ (s.fn = "app" /\ s.pc = "ret" /\ s.result.exc /\ t # s)
                    => /\ t.pc = IF s.files = 1 THEN "app_done" ELSE "app_file"
                       /\ t.files = s.files - 1
                       /\ Last(t.rows) = Row(s, "Failed")
                       /\ StoreSame
              /\ IsPrefix(invoices, invoices') /\ IsPrefix(embeddings, embeddings')]_vars

\* an upload whose first file met a store failure and whose second file was
\* stored
C8_Witness ==
    \E p \in Workers :
        /\ w[p].fn = "app"
        /\ Len(w[p].rows) = 2
        /\ w[p].rows[1].status = "Failed"
        /\ Len(w[p].anomalies) = 1
        /\ w[p].anomalies[1].errors[1].msg = "Mongo insert failed"
        /\ w[p].rows[2].status = "Success"

\* C9: no error recorded in the anomalies of an upload carries the text of a
\* caught exception.
C9_NoRawText ==
    \A p \in Workers :
        \A i \in 1..Len(w[p].anomalies) :
            \A j \in 1..Len(w[p].anomalies[i].errors) :
                ~w[p].anomalies[i].errors[j].raw

-----------------------------------------------------------------------------
(* Claims about validate_invoice (SpecArith) *)

ArithItems == IF inv.items[1] = "list" THEN inv.items[2] ELSE <<>>
ArithSummary == IF inv.summary[1] = "dict" THEN inv.summary[2] ELSE EmptySummary
ArithPct == clean_number(ArithSummary.cgst) + clean_number(ArithSummary.sgst)
            + clean_number(ArithSummary.igst)

\* every line has nonzero quantity, rate and amount with amount = quantity*rate
LinesConsistent ==
    \A i \in 1..Len(ArithItems) :
        LET q == clean_number(ArithItems[i].quantity)
            r == clean_number(ArithItems[i].rate)
            a == clean_number(ArithItems[i].amount)
        IN  q # 0 /\ r # 0 /\ a # 0 /\ a = q * r

\* every line amount is a whole number of cents
LinesWholeCents ==
    \A i \in 1..Len(ArithItems) : clean_number(ArithItems[i].amount) % Cent = 0

\* the record of C10: consistent lines, declared subtotal = sum of the line
\* amounts, cgst/sgst/igst all <= 50, declared total = subtotal + tax + round_off
FullyConsistent ==
    /\ inv.items[1] = "list" /\ inv.summary[1] = "dict"
    /\ LinesConsistent
    /\ ArithSummary.subtotal # NONE
    /\ clean_number(ArithSummary.subtotal) = AmountSum(ArithItems, 1)
    /\ clean_number(ArithSummary.cgst) <= PctLimit
    /\ clean_number(ArithSummary.sgst) <= PctLimit
    /\ clean_number(ArithSummary.igst) <= PctLimit
    /\ ArithSummary.total_amount # NONE
    /\ clean_number(ArithSummary.total_amount)
         = AmountSum(ArithItems, 1) + (AmountSum(ArithItems, 1) * ArithPct) \div 100
           + clean_number(ArithSummary.round_off)

Passes(r) ==
    /\ ~r.raised
    /\ r.status = TRUE
    /\ r.errors = <<>>
    /\ r.status_grand_total /\ r.status_subtotal
    /\ r.status_tax_total /\ r.status_data_missing

\* C10 as stated: a fully consistent record passes, with all four flags true
\* and calculated = {sum of line amounts, subtotal*(cgst+sgst+igst)/100,
\* declared total}
C10_Original ==
    (res # <<>> /\ FullyConsistent) =>
        /\ Passes(res[1])
        /\ res[1].calculated =
              [subtotal |-> AmountSum(ArithItems, 1),
               tax_amount |-> (AmountSum(ArithItems, 1) * ArithPct) \div 100,
               grand_total |-> clean_number(ArithSummary.total_amount)]

\* C10 amended: a fully consistent record whose line amounts are whole cents
\* passes with all four flags true, and calculated holds the sum of the line
\* amounts, the tax and the declared total, the last two rounded to 2 decimals
C10_ConsistentPasses ==
    (res # <<>> /\ FullyConsistent /\ LinesWholeCents) =>
        /\ Passes(res[1])
        /\ res[1].calculated =
              [subtotal |-> AmountSum(ArithItems, 1),
               tax_amount |-> round2((AmountSum(ArithItems, 1) * ArithPct) \div 100, tieUp),
               grand_total |-> round2(clean_number(ArithSummary.total_amount), tieUp)]

\* a validated, fully consistent record of two whole-cent lines taxed at 18 %
C10_Witness ==
    /\ res # <<>> /\ FullyConsistent /\ LinesWholeCents
    /\ Len(ArithItems) = 2
    /\ ArithPct = 18
    /\ res[1].calculated.tax_amount > 0

\* the validator returned a result for the record
Validated == res # <<>> /\ ~res[1].raised

\* the errors list holds an error of this kind for line i
LineError(kind, i) ==
    \E j \in 1..Len(res[1].errors) :
        res[1].errors[j].kind = kind /\ res[1].errors[j].item = i

\* the errors list holds an error of this kind (subtotal, tax, grand)
SummaryError(kind) ==
    \E j \in 1..Len(res[1].errors) : res[1].errors[j].kind = kind

LineQty(i)    == clean_number(ArithItems[i].quantity)
LineRate(i)   == clean_number(ArithItems[i].rate)
LineAmount(i) == clean_number(ArithItems[i].amount)

\* C11 as stated: for every line whose normalized quantity and rate are both
\* nonzero, an item mismatch error is emitted for the line if and only if
\* |quantity*rate - amount| > 0.01, whatever the amount (absent or zero too)
C11_Original ==
    Validated =>
        \A i \in 1..Len(ArithItems) :
            (LineQty(i) # 0 /\ LineRate(i) # 0) =>
                (LineError("item", i)
                    <=> Abs(LineQty(i) * LineRate(i) - LineAmount(i)) > TolLine)

\* C11 amended: for every line whose normalized quantity and rate are both
\* nonzero, a zero or absent amount gives the missing-value error and no
\* mismatch error; a nonzero amount gives a mismatch error if and only if
\* round(quantity*rate, 2) differs from the amount by more than 0.01 (on a
\* difference of exactly 0.01 the binary floats decide)
C11_LineMismatch ==
    Validated =>
        \A i \in 1..Len(ArithItems) :
            (LineQty(i) # 0 /\ LineRate(i) # 0) =>
                IF LineAmount(i) = 0
                THEN LineError("missing", i) /\ ~LineError("item", i)
                ELSE /\ ~LineError("missing", i)
                     /\ LineError("item", i)
                          <=> LET d == Abs(round2(LineQty(i) * LineRate(i), tieUp)
                                           - LineAmount(i))
                              IN  d > TolLine \/ (d = TolLine /\ fpEdge)

\* a validated record with a flagged line, a line whose amount is more than
\* 0.01 away from quantity*rate but within 0.01 of the rounded product and
\* so not flagged, and a line with quantity and rate but no amount
C11_Witness ==
    /\ Validated
    /\ \E i, j, k \in 1..Len(ArithItems) :
          /\ LineQty(i) # 0 /\ LineRate(i) # 0 /\ LineAmount(i) # 0
          /\ LineError("item", i)
          /\ LineQty(j) # 0 /\ LineRate(j) # 0 /\ LineAmount(j) # 0
          /\ Abs(LineQty(j) * LineRate(j) - LineAmount(j)) > TolLine
          /\ ~LineError("item", j)
          /\ LineQty(k) # 0 /\ LineRate(k) # 0 /\ LineAmount(k) = 0
          /\ LineError("missing", k)

\* ---- the quantities the summary checks are stated in

\* quantity and rate of line i after the rescue of a line that has only an
\* amount
EffQty(i) ==
    IF LineQty(i) = 0 /\ LineRate(i) = 0 /\ LineAmount(i) # 0 THEN 1 ELSE LineQty(i)
EffRate(i) ==
    IF LineQty(i) = 0 /\ LineRate(i) = 0 /\ LineAmount(i) # 0
    THEN LineAmount(i) ELSE LineRate(i)

\* line i is skipped: quantity, rate or amount is still zero
Skipped(i) == EffQty(i) = 0 \/ EffRate(i) = 0 \/ LineAmount(i) = 0

\* sum of round(quantity*rate, 2) over the non-skipped lines among 1..n
RECURSIVE ExpectedSum(_)
ExpectedSum(n) ==
    IF n = 0 THEN 0
    ELSE ExpectedSum(n - 1)
         + (IF Skipped(n) THEN 0 ELSE round2(EffQty(n) * EffRate(n), tieUp))

\* the computed subtotal: the expected sum, or the observed sum when that is 0
ComputedSubtotal ==
    LET expected == ExpectedSum(Len(ArithItems))
    IN  IF expected = 0 THEN AmountSum(ArithItems, 1) ELSE expected

\* d > tol on the floats: a decimal difference of exactly tol falls on the
\* side the binary values put it
Beyond(d, tol) == d > tol \/ (d = tol /\ fpEdge)

DeclaredSubtotal == clean_number(ArithSummary.subtotal)
DeclaredTax      == clean_number(ArithSummary.tax_amount)
DeclaredTotal    == clean_number(ArithSummary.total_amount)

\* the declared subtotal is nonzero and more than 0.01 away from computed
SubtotalOffAt(computed) ==
    DeclaredSubtotal # 0 /\ Beyond(Abs(DeclaredSubtotal - computed), TolLine)

SubtotalOff == SubtotalOffAt(ComputedSubtotal)

WorkingSubtotal ==
    LET computed == ComputedSubtotal
    IN  IF SubtotalOffAt(computed) THEN DeclaredSubtotal ELSE computed

\* at least one of cgst/sgst/igst is strictly greater than 50
AsAmounts ==
    \/ clean_number(ArithSummary.cgst) > PctLimit
    \/ clean_number(ArithSummary.sgst) > PctLimit
    \/ clean_number(ArithSummary.igst) > PctLimit

TaxOff == AsAmounts /\ Beyond(Abs(ArithPct * One - DeclaredTax), TolLine)

\* the working tax on a working subtotal
WorkingTaxOn(subtotal) ==
    IF AsAmounts THEN ArithPct * One ELSE (subtotal * ArithPct) \div 100

WorkingTax == WorkingTaxOn(WorkingSubtotal)

ExpectedTotal ==
    LET subtotal == WorkingSubtotal
    IN  round2(subtotal + WorkingTaxOn(subtotal)
                 + clean_number(ArithSummary.round_off), tieUp)

\* the declared total is nonzero and more than 1.0 away from expected
GrandOffAt(expected) ==
    DeclaredTotal # 0 /\ Beyond(Abs(expected - DeclaredTotal), TolTotal)

GrandOff == GrandOffAt(ExpectedTotal)

\* C12: a grand-total mismatch error is emitted and status_grand_total is
\* false if and only if the declared total_amount is nonzero after
\* normalization and differs from round(working_subtotal + working_tax +
\* round_off, 2) by more than 1.0 (a difference of exactly 1.0 between the
\* floats is accepted); when the total is the only inconsistency the result
\* has exactly one error, showing the declared total to two decimals, status
\* false and the other three flags true
C12_GrandTotal ==
    Validated =>
        LET expected == ExpectedTotal
            off      == GrandOffAt(expected)
        IN
        /\ SummaryError("grand") <=> off
        /\ res[1].status_grand_total <=> ~off
        /\ res[1].calculated.grand_total = expected
        /\ (Abs(expected - DeclaredTotal) = TolTotal /\ ~fpEdge)
              => res[1].status_grand_total
        /\ (off /\ ~SubtotalOff /\ ~TaxOff
               /\ \A i \in 1..Len(ArithItems) :
                     ~LineError("item", i) /\ ~LineError("missing", i))
              => /\ res[1].errors = << [kind |-> "grand", expected |-> expected,
                                        found |-> round2(DeclaredTotal, tieUp)] >>
                 /\ res[1].status = FALSE
                 /\ res[1].status_subtotal /\ res[1].status_tax_total
                 /\ res[1].status_data_missing

\* a validated record of consistent lines whose declared total is 1.5 off
\* and is the only inconsistency
C12_Witness ==
    /\ Validated
    /\ Len(ArithItems) >= 1
    /\ LinesConsistent
    /\ DeclaredSubtotal # 0
    /\ ArithPct = 18
    /\ Abs(ExpectedTotal - DeclaredTotal) = 150000
    /\ Len(res[1].errors) = 1
    /\ ~res[1].status_grand_total

\* C19: a tax-total mismatch is emitted and status_tax_total is false if and
\* only if at least one of cgst/sgst/igst is strictly greater than 50 and
\* their sum differs from the declared tax_amount by more than 0.01, the
\* working tax then being that sum; when all three are <= 50 the working tax
\* is working subtotal * (cgst+sgst+igst) / 100 and no tax mismatch is emitted
\* whatever tax_amount is declared
C19_TaxInterpretation ==
    Validated =>
        LET off == TaxOff
        IN
        /\ SummaryError("tax") <=> off
        /\ res[1].status_tax_total <=> ~off
        /\ res[1].calculated.tax_amount = round2(WorkingTax, tieUp)
        /\ ~AsAmounts => (res[1].status_tax_total /\ ~SummaryError("tax"))

\* a validated record taxed at exactly 50 percent whose declared tax_amount
\* is not the tax worked out, and no tax mismatch
C19_Witness ==
    /\ Validated
    /\ clean_number(ArithSummary.igst) = PctLimit
    /\ WorkingSubtotal # 0
    /\ DeclaredTax # 0
    /\ Abs(DeclaredTax - WorkingTax) > TolLine
    /\ res[1].status_tax_total
    /\ res[1].calculated.tax_amount = round2(WorkingSubtotal \div 2, tieUp)

\* C20: with the computed subtotal the sum of round(quantity*rate, 2) over
\* the non-skipped lines, or the sum of the observed line amounts when that
\* sum is zero, a subtotal mismatch is emitted and status_subtotal is false if
\* and only if the summary declares a nonzero subtotal that differs from the
\* computed subtotal by more than 0.01
C20_SubtotalCheck ==
    Validated =>
        LET computed == ComputedSubtotal
            off      == SubtotalOffAt(computed)
        IN
        /\ SummaryError("subtotal") <=> off
        /\ res[1].status_subtotal <=> ~off
        /\ res[1].calculated.subtotal
              = round2(IF off THEN DeclaredSubtotal ELSE computed, tieUp)

\* a validated record whose lines are all skipped, whose computed subtotal is
\* therefore the observed sum, and whose declared subtotal is 0.02 off
C20_Witness ==
    /\ Validated
    /\ Len(ArithItems) >= 1
    /\ \A i \in 1..Len(ArithItems) : Skipped(i)
    /\ DeclaredSubtotal # 0
    /\ SubtotalOff
    /\ ~res[1].status_subtotal

\* C13: validate_invoice never raises: for every record, those whose summary
\* or items are absent or null included, it returns a result
C13_NeverRaises ==
    res # <<>> => ~res[1].raised

\* C21: for every record, whether or not the declared subtotal matched, the
\* subtotal used for the percentage tax and for the grand-total check, and the
\* value reported as calculated.subtotal, is the subtotal recomputed from the
\* line items (rounded to 2 decimals), never the declared summary subtotal
C21_WorkingIsComputed ==
    Validated =>
        LET computed == ComputedSubtotal
            tax      == WorkingTaxOn(computed)
        IN  /\ res[1].calculated.subtotal = round2(computed, tieUp)
            /\ res[1].calculated.tax_amount = round2(tax, tieUp)
            /\ res[1].calculated.grand_total
                  = round2(computed + tax + clean_number(ArithSummary.round_off), tieUp)

\* line i is not skipped and its whole-cent amount is quantity*rate
ConsistentLine(i) ==
    /\ ~Skipped(i)
    /\ LineAmount(i) % Cent = 0
    /\ EffQty(i) * EffRate(i) = LineAmount(i)

\* the number of missing-value errors the result holds for line i
MissingErrors(i) ==
    Cardinality({ j \in 1..Len(res[1].errors) :
                    res[1].errors[j].kind = "missing" /\ res[1].errors[j].item = i })

\* C22: a line skipped for missing numeric data (quantity, rate or amount
\* still zero after the rescue) yields one missing-value error and
\* status_data_missing false but never a false mismatch: if every other line
\* is consistent and the declared subtotal equals the sum of all line amounts,
\* no line mismatch and no subtotal mismatch error is emitted
C22_SkippedNoFalseMismatch ==
    Validated =>
        \A i \in 1..Len(ArithItems) :
            Skipped(i) =>
                /\ MissingErrors(i) = 1
                /\ ~res[1].status_data_missing
                /\ ~LineError("item", i)
                /\ ( /\ \A k \in 1..Len(ArithItems) : k # i => ConsistentLine(k)
                     /\ DeclaredSubtotal = AmountSum(ArithItems, 1) )
                      => /\ \A k \in 1..Len(ArithItems) : ~LineError("item", k)
                         /\ ~SummaryError("subtotal")

\* line i has neither quantity nor rate but an amount: the line the rescue
\* applies to
Rescued(i) == LineQty(i) = 0 /\ LineRate(i) = 0 /\ LineAmount(i) # 0

\* the expected-amount sum over lines 1..n in which a rescued line counts for
\* exactly its amount
RECURSIVE ExpectedSumExact(_)
ExpectedSumExact(n) ==
    IF n = 0 THEN 0
    ELSE ExpectedSumExact(n - 1)
         + (IF Skipped(n) THEN 0
            ELSE IF Rescued(n) THEN LineAmount(n)
            ELSE round2(EffQty(n) * EffRate(n), tieUp))

\* the subtotal reported when none is declared, for an expected-amount sum
ReportedFor(expected) ==
    round2(IF expected = 0 THEN AmountSum(ArithItems, 1) ELSE expected, tieUp)

\* C23 as stated: a line whose quantity and rate are both zero/absent and
\* whose amount is nonzero is taken as quantity 1 at rate = amount: it gives no
\* missing-data error, leaves status_data_missing true, gives no mismatch
\* error, and contributes exactly its amount to the expected-amount sum
C23_Original ==
    Validated =>
        /\ \A i \in 1..Len(ArithItems) :
              Rescued(i) => ~LineError("missing", i) /\ ~LineError("item", i)
        /\ res[1].status_data_missing <=> \A i \in 1..Len(ArithItems) : ~Skipped(i)
        /\ DeclaredSubtotal = 0
              => res[1].calculated.subtotal
                    = ReportedFor(ExpectedSumExact(Len(ArithItems)))

\* C23 amended: such a line gives no missing-data error, leaves
\* status_data_missing true, gives no mismatch error, and contributes its
\* amount rounded to 2 decimals to the expected-amount sum
C23_DegenerateRescue ==
    Validated =>
        /\ \A i \in 1..Len(ArithItems) :
              Rescued(i) => ~LineError("missing", i) /\ ~LineError("item", i)
        /\ res[1].status_data_missing <=> \A i \in 1..Len(ArithItems) : ~Skipped(i)
        /\ DeclaredSubtotal = 0
              => res[1].calculated.subtotal
                    = ReportedFor(ExpectedSum(Len(ArithItems)))

\* a validated record of rescued lines only, whose amounts are not whole
\* cents: no error, and a reported subtotal that is not the rounded sum of the
\* amounts
C23_Witness ==
    /\ Validated
    /\ Len(ArithItems) >= 2
    /\ \A i \in 1..Len(ArithItems) : Rescued(i) /\ LineAmount(i) % Cent # 0
    /\ DeclaredSubtotal = 0
    /\ res[1].errors = <<>>
    /\ res[1].status_data_missing
    /\ res[1].calculated.subtotal # round2(AmountSum(ArithItems, 1), tieUp)

\* the four flags of the result are all true
AllFlags ==
    /\ res[1].status_grand_total /\ res[1].status_subtotal
    /\ res[1].status_tax_total /\ res[1].status_data_missing

\* the errors list is not empty and holds line mismatches only
OnlyLineMismatches ==
    /\ res[1].errors # <<>>
    /\ \A j \in 1..Len(res[1].errors) : res[1].errors[j].kind = "item"

-----------------------------------------------------------------------------
(* Claims about the lookup and embedding functions (SpecFn) *)

\* the function named was applied
Applied(f) == res # <<>> /\ args.fn = f

\* the record looked up, as the function reads it
LookedUp == from_pairs(inv)

\* a string field is supplied: neither null nor empty
Supplied(v) == v # NONE /\ v # <<"text", "">>

\* the total of a record: summary total_amount if there is one, else
\* invoice_amount
TotalOf(doc) ==
    IF doc.summary[1] = "dict" /\ doc.summary[2].total_amount # NONE
    THEN doc.summary[2].total_amount
    ELSE doc.invoice_amount

\* the stored record carries this total, in the summary or at top level
CarriesTotal(r, t) ==
    \/ (r.summary[1] = "dict" /\ r.summary[2].total_amount = t)
    \/ r.invoice_amount = t

\* the record returned is one of the collection
FromStore(found) == \E i \in 1..Len(invoices) : invoices[i] = found[1]

\* C14 as stated: a record r is returned only if r equals the input on every
\* one of invoice number, GSTIN and date that is present in the input and r's
\* summary total_amount or invoice_amount equals the input's total; an input
\* with none of the four is not looked up and gives None
C14_Original ==
    (Applied("is_exact_duplicate") /\ res[1].with_date) =>
        /\ res[1].found # <<>> =>
              LET r == res[1].found[1].doc
              IN  /\ FromStore(res[1].found)
                  /\ LookedUp.invoice_no # NONE => r.invoice_no = LookedUp.invoice_no
                  /\ LookedUp.gstin_company # NONE
                        => r.gstin_company = LookedUp.gstin_company
                  /\ LookedUp.invoice_date # NONE
                        => r.invoice_date = LookedUp.invoice_date
                  /\ CarriesTotal(r, TotalOf(LookedUp))
        /\ (LookedUp.invoice_no = NONE /\ LookedUp.gstin_company = NONE
              /\ LookedUp.invoice_date = NONE /\ TotalOf(LookedUp) = NONE)
             => (~res[1].queried /\ res[1].found = <<>>)

\* C14 amended: a record r is returned only if r equals the input on every
\* one of invoice number, GSTIN and date that is non-empty in the input and,
\* when the input has a total, r's summary total_amount or invoice_amount
\* equals it; an input with no non-empty number, GSTIN or date and no total is
\* not looked up and gives None
C14_QuerySemantics ==
    (Applied("is_exact_duplicate") /\ res[1].with_date) =>
        /\ res[1].found # <<>> =>
              LET r == res[1].found[1].doc
              IN  /\ FromStore(res[1].found)
                  /\ Supplied(LookedUp.invoice_no) => r.invoice_no = LookedUp.invoice_no
                  /\ Supplied(LookedUp.gstin_company)
                        => r.gstin_company = LookedUp.gstin_company
                  /\ Supplied(LookedUp.invoice_date)
                        => r.invoice_date = LookedUp.invoice_date
                  /\ TotalOf(LookedUp) # NONE => CarriesTotal(r, TotalOf(LookedUp))
        /\ (~Supplied(LookedUp.invoice_no) /\ ~Supplied(LookedUp.gstin_company)
              /\ ~Supplied(LookedUp.invoice_date) /\ TotalOf(LookedUp) = NONE)
             <=> ~res[1].queried
        /\ ~res[1].queried => res[1].found = <<>>

\* a lookup with number, GSTIN, date and total all supplied that passes over
\* the first stored record and returns the second
C14_Witness ==
    /\ Applied("is_exact_duplicate") /\ res[1].with_date
    /\ Supplied(LookedUp.invoice_no) /\ Supplied(LookedUp.gstin_company)
    /\ Supplied(LookedUp.invoice_date) /\ TotalOf(LookedUp) # NONE
    /\ Len(invoices) = 2
    /\ res[1].found = << invoices[2] >>
    /\ invoices[1].doc.invoice_no = LookedUp.invoice_no
    /\ invoices[1].doc.invoice_date # LookedUp.invoice_date

\* stored record i has the invoice number, GSTIN and total of the input
SameThree(i) ==
    /\ invoices[i].doc.invoice_no = LookedUp.invoice_no
    /\ invoices[i].doc.gstin_company = LookedUp.gstin_company
    /\ TotalOf(LookedUp) # NONE
    /\ CarriesTotal(invoices[i].doc, TotalOf(LookedUp))

\* C15 as stated: if a stored record has the invoice number, GSTIN and total
\* of the new record, is_exact_duplicate returns a stored record, whatever
\* the other fields of the two are (either version)
C15_Original ==
    Applied("is_exact_duplicate") =>
        ((\E i \in 1..Len(invoices) : SameThree(i)) => res[1].found # <<>>)

\* C15 amended: if a stored record has the invoice number, GSTIN and total of
\* the new record, is_exact_duplicate of database/duplicate_detector.py
\* returns a stored record whatever the other fields are, and
\* is_exact_duplicate of data_base/duplicate_utils.py does so when the new
\* record's invoice date is empty or is that stored record's date
C15_SameThreeFound ==
    Applied("is_exact_duplicate") =>
        ((\E i \in 1..Len(invoices) :
             /\ SameThree(i)
             /\ res[1].with_date =>
                   (~Supplied(LookedUp.invoice_date)
                      \/ invoices[i].doc.invoice_date = LookedUp.invoice_date))
          => (res[1].found # <<>> /\ FromStore(res[1].found)))

\* a new record with the number, GSTIN and total of the one stored record,
\* another line text and another date, found by the version that leaves the
\* date out
C15_Witness ==
    /\ Applied("is_exact_duplicate") /\ ~res[1].with_date
    /\ Len(invoices) = 1
    /\ SameThree(1)
    /\ Supplied(LookedUp.invoice_no) /\ Supplied(LookedUp.gstin_company)
    /\ Supplied(LookedUp.invoice_date)
    /\ invoices[1].doc.invoice_date # LookedUp.invoice_date
    /\ invoices[1].doc.items # LookedUp.items
    /\ res[1].found = << invoices[1] >>

\* the key/value pairs of a dict, whatever their order
PairSet(p) == { p[i] : i \in 1..Len(p) }

\* two dicts with the same content, in whatever key order
SameContent(p, q) == PairSet(p) = PairSet(q)

\* the value under a key
ValueAt(p, k) ==
    LET hits == { kv \in PairSet(p) : kv[1] = k }
    IN  IF hits = {} THEN <<"missing">> ELSE (CHOOSE kv \in hits : TRUE)[2]

\* the line items without their quantities, rates and amounts
MaskedItems(v) ==
    IF v[1] = "list"
    THEN [i \in 1..Len(v[2]) |->
             [v[2][i] EXCEPT !.quantity = NONE, !.rate = NONE, !.amount = NONE]]
    ELSE v

\* two dicts that differ at most in item quantities, rates and amounts,
\* invoice number and invoice date
DifferOnlyInDropped(p, q) ==
    /\ \A k \in { "gstin_company", "company_details", "summary", "invoice_amount", "_id" } :
          ValueAt(p, k) = ValueAt(q, k)
    /\ MaskedItems(ValueAt(p, "items")) = MaskedItems(ValueAt(q, "items"))

\* C16: computing the embedding text leaves the input record unchanged,
\* gives the same text when applied again to the same record, the same text
\* for two records with the same content in different key order, and the
\* same text for two records that differ only in item quantities, rates,
\* amounts, invoice number or invoice date
C16_ProjectionInvariant ==
    [][ (res = <<>> /\ res' # <<>> /\ args.fn = "compute_embedding_for_doc") =>
          /\ inv' = inv /\ args' = args
          /\ res'[1].text = embedding_text(inv')
          /\ SameContent(inv, args.other) => res'[1].text = res'[1].other_text
          /\ DifferOnlyInDropped(inv, args.other) => res'[1].text = res'[1].other_text
      ]_vars

\* two records written in different key orders that differ in invoice
\* number, date and quantities and get the same text
C16_Witness ==
    /\ Applied("compute_embedding_for_doc")
    /\ inv[1][1] # args.other[1][1]
    /\ ValueAt(inv, "invoice_no") # ValueAt(args.other, "invoice_no")
    /\ ValueAt(inv, "invoice_date") # ValueAt(args.other, "invoice_date")
    /\ ValueAt(inv, "items") # ValueAt(args.other, "items")
    /\ DifferOnlyInDropped(inv, args.other)
    /\ res[1].text = res[1].other_text

\* the vectors compared have the same length
EqualLength == Len(args.a) = Len(args.b)

\* the product of the norms is zero
ZeroNorm == Dot(args.a, args.a) * Dot(args.b, args.b) = 0

\* the score returned is dot(a, b) / (|a| |b|), held as the signed square
\* n/d: n/d = sign(dot) * dot^2 / (|a|^2 |b|^2)
ScoreIsCosine ==
    LET dot == Dot(args.a, args.b)
    IN  res[1].score.n * (Dot(args.a, args.a) * Dot(args.b, args.b))
          = (IF dot < 0 THEN -(dot * dot) ELSE dot * dot) * res[1].score.d

\* C17 as stated: for equal-length vectors the score is in [0, 1]; it is 0,
\* with no division, when either norm is zero; it is 1 for a nonzero vector
\* compared with itself
C17_Original ==
    (Applied("cosine_similarity") /\ EqualLength) =>
        /\ ~res[1].score.raised
        /\ 0 <= res[1].score.n
        /\ res[1].score.n <= res[1].score.d
        /\ res[1].score.n = res[1].score.d => res[1].rounding <= 0
        /\ ZeroNorm => (res[1].score.n = 0 /\ res[1].rounding = 0)
        /\ (args.a = args.b /\ ~ZeroNorm)
              => (res[1].score.n = res[1].score.d /\ res[1].rounding = 0)

\* C17 amended: for equal-length vectors the score is the cosine
\* dot(a, b) / (|a| |b|), which lies in [-1, 1]; it is exactly 0, with no
\* division, when the product of the norms is zero; for a vector of nonzero
\* norm compared with itself it is 1 up to the rounding of the float division
C17_CosineRange ==
    (Applied("cosine_similarity") /\ EqualLength) =>
        /\ ~res[1].score.raised
        /\ -res[1].score.d <= res[1].score.n
        /\ res[1].score.n <= res[1].score.d
        /\ res[1].rounding \in { -1, 0, 1 }
        /\ ZeroNorm => (res[1].score.n = 0 /\ res[1].rounding = 0)
        /\ ~ZeroNorm => ScoreIsCosine
        /\ (args.a = args.b /\ ~ZeroNorm) => res[1].score.n = res[1].score.d

\* two opposite vectors compared: the score is -1
C17_Witness ==
    /\ Applied("cosine_similarity") /\ EqualLength
    /\ ~ZeroNorm
    /\ args.a # args.b
    /\ res[1].score.n = -res[1].score.d

\* the pairs returned by the scan
Matches == res[1].matches

\* the cosine of the query and stored embedding i, as the signed square n/d
StoredScore(i) ==
    LET e   == embeddings[i].embedding
        na  == Dot(args.embedding, args.embedding)
        nb  == Dot(e, e)
        dot == Dot(args.embedding, e)
    IN  IF na * nb = 0 THEN [n |-> 0, d |-> 1]
        ELSE [n |-> IF dot < 0 THEN -(dot * dot) ELSE dot * dot, d |-> na * nb]

\* stored embedding i has a score: it is not empty, and it has the length of
\* the query unless a norm is zero
HasScore(i) ==
    LET e == embeddings[i].embedding
    IN  /\ e # <<>>
        /\ Len(e) = Len(args.embedding)
             \/ Dot(args.embedding, args.embedding) * Dot(e, e) = 0

\* score n/d >= threshold (hundredths)
MeetsThreshold(sc) == sc.n * 10000 >= args.threshold * args.threshold * sc.d

\* the stored embeddings whose score is at least the threshold
Qualifying == { i \in 1..Len(embeddings) : HasScore(i) /\ MeetsThreshold(StoredScore(i)) }

SameScore(x, y) == x.n * y.d = y.n * x.d
HigherScore(x, y) == x.n * y.d > y.n * x.d

\* at most top_k pairs, each at least the threshold, in non-increasing score
\* order, the top of the qualifying stored embeddings
RankedTop ==
    /\ Len(Matches) <= args.top_k
    /\ Len(Matches) = IF Cardinality(Qualifying) < args.top_k
                      THEN Cardinality(Qualifying) ELSE args.top_k
    /\ \A p \in 1..Len(Matches) :
          /\ MeetsThreshold(Matches[p].score)
          /\ \A q \in p + 1..Len(Matches) :
                ~HigherScore(Matches[q].score, Matches[p].score)
          /\ Cardinality({ i \in Qualifying :
                              HigherScore(StoredScore(i), Matches[p].score) }) <= p - 1

\* C18: at most top_k pairs, every score >= threshold, in non-increasing
\* order, no better-scoring stored embedding left out, and the identifier of
\* each pair is the invoice_id of the matching record
C18_RankedById ==
    Applied("find_similar_embeddings") =>
        /\ RankedTop
        /\ \A p \in 1..Len(Matches) :
              \E i \in Qualifying :
                  /\ SameScore(StoredScore(i), Matches[p].score)
                  /\ Matches[p].name = py_str(embeddings[i].invoice_id)

\* the summary of a record given as a dict
SummaryAt(p) == ValueAt(p, "summary")[2]

\* the two records compared differ in the summary's cgst, sgst or igst
TaxFieldsDiffer ==
    \/ SummaryAt(inv).cgst # SummaryAt(args.other).cgst
    \/ SummaryAt(inv).sgst # SummaryAt(args.other).sgst
    \/ SummaryAt(inv).igst # SummaryAt(args.other).igst

\* C25: the projection retains the summary's cgst, sgst and igst: any two
\* records that differ in the value of cgst, of sgst or of igst in the summary
\* have different projections and so different embedding texts
C25_TaxFieldsRetained ==
    (Applied("compute_embedding_for_doc") /\ TaxFieldsDiffer)
        => res[1].text # res[1].other_text

-----------------------------------------------------------------------------
(* Further claims about the pipelines (Spec) *)

\* the caller whose calls follow each other
Caller == w["w1"]

\* the caller is back from insert_doc called with no file name for a record
\* in the shape of the data model (invoice_no and invoice_date, no
\* invoice_number and invoiced_date), found neither an exact nor a fuzzy
\* duplicate, in a run whose store and embedding model do not fail
UnnamedCallDone ==
    /\ Caller.pc = "ret"
    /\ Caller.fn = "insert_doc"
    /\ Caller.file_name = NONE
    /\ ~DocOf(Caller).alt_keys
    /\ ~faults
    /\ Caller.result.kind \notin {"dup", "fuzzy"}

\* C26: insert_doc called without a file name behaves as with one: for a
\* record in the data-model shape that is neither an exact nor a fuzzy
\* duplicate it inserts the document, stores its embedding linked to the
\* inserted id, and returns a success result
C26_UnnamedInsert ==
    UnnamedCallDone =>
        /\ Caller.result.status = "200"
        /\ Caller.inserted # NONE
        /\ \E i \in 1..Len(invoices) :
              invoices[i].id = Caller.inserted /\ invoices[i].doc = DocOf(Caller)
        /\ \E j \in 1..Len(embeddings) :
              embeddings[j].invoice_id = str_id(Caller.inserted)

\* the caller is back from insert_doc, called directly or by the app
InsertDocDone == Caller.pc = "ret" /\ Caller.fn \in {"insert_doc", "app"}

\* the store holds an invoice or an embedding record of this call
LeftInStore ==
    \/ \E i \in 1..Len(invoices) : invoices[i].id = Caller.inserted
    \/ \E j \in 1..Len(embeddings) :
          Caller.inserted # NONE /\ embeddings[j].invoice_id = str_id(Caller.inserted)

\* C28: insert_doc is all-or-nothing: it returns status '200' if and only if
\* the invoice document was inserted during that call, and whenever it returns
\* an error result neither an invoice nor an embedding record for that input
\* has been left in the store
C28_AllOrNothing ==
    InsertDocDone =>
        /\ Caller.result.status = "200" <=> Caller.inserted # NONE
        /\ Caller.result.kind = "error" => ~LeftInStore

\* the caller runs the file loop of the app
InApp == Caller.fn = "app"

\* the record of the file at hand passes the arithmetic validator the app
\* calls (the stand-in of a failed import never passes)
ArithPasses ==
    /\ Caller.avail
    /\ Passes(validate_invoice(DocOf(Caller), FALSE, FALSE))

\* the rows of the summary that name the k-th file from the end
RowsOf(k) == { j \in 1..Len(Caller.rows) : Caller.rows[j].file = FileName(k) }

\* C29: in the app pipeline insert_doc is called for a record only if the
\* schema, GSTIN, arithmetic and HSN checks all produced no error, so no
\* record whose arithmetic validation returned status false (or raised) has
\* been inserted by the run, and every file ends with exactly one summary
\* status among Success, Duplicate and Failed
C29_BlockedOnError ==
    InApp =>
        /\ Has(Caller.log, "exact") =>
              /\ Caller.doc[1] = "doc"
              /\ check_invoice_data_schema(DocOf(Caller)) = <<>>
              /\ ArithPasses
              /\ hsn_process(DocOf(Caller)) = "Success"
        /\ Caller.inserted # NONE => ArithPasses
        /\ \A j \in 1..Len(Caller.rows) :
              Caller.rows[j].status \in {"Success", "Duplicate", "Failed"}
        /\ \A k \in 1..MaxFiles : Cardinality(RowsOf(k)) <= 1
        /\ Caller.pc \in {"app_done", "crashed"} => Cardinality(RowsOf(1)) = 1

-----------------------------------------------------------------------------
(* Claims about sequences of insert_doc calls (SpecSeq) *)

\* is_exact_duplicate applied to record a would match the stored record b
WouldMatch(a, b) ==
    LET query == ExactQuery(a, TRUE)
    IN  ~QueryEmpty(query) /\ QueryMatches(query, b)

\* C27: after any sequence of non-overlapping insert_doc calls the invoices
\* collection never holds two distinct records A and B such that
\* is_exact_duplicate applied to A would match B or applied to B would match
\* A, in every arrival order, also when one of the two lacks an identifying
\* field (invoice number, GSTIN or date) the other has
C27_ExactlyOnce ==
    \A i, j \in 1..Len(invoices) :
        i # j => ~WouldMatch(invoices[i].doc, invoices[j].doc)

\* the record of the call that is returning has the projection (vendor GSTIN
\* and name, description and code of each line, retained summary tax fields)
\* of a record an earlier call stored together with its embedding
AcceptedTwin ==
    \E j \in 1..Len(invoices), e \in 1..Len(embeddings) :
        /\ invoices[j].id # Caller.inserted
        /\ embeddings[e].invoice_id = str_id(invoices[j].id)
        /\ embeddings[e].embedding # <<>>
        /\ normalize_for_embedding(invoices[j].doc)
              = normalize_for_embedding(DocOf(Caller))

\* compute_embedding gave [] in this call: the vector in hand is empty, or
\* the record was inserted without a fuzzy scan
EmbeddingFailed ==
    \/ Has(Caller.log, "embed") /\ Caller.emb = <<>>
    \/ Has(Caller.log, "ins_inv") /\ ~Has(Caller.log, "fuzzy")

\* insert_doc is returning for a record B with the projection of an accepted
\* record A, and no embedding of the call failed
TwinCallDone ==
    /\ Caller.pc = "ret"
    /\ Caller.fn = "insert_doc"
    /\ AcceptedTwin
    /\ ~EmbeddingFailed

=============================================================================
